---- MODULE Spec2Model ----
(***************************************************************************)
(* next-better-api: endpoint(), asHandler() and the per-request pipeline   *)
(* of the handler asHandler returns (outerHandler wrapped by decorators).  *)
(*                                                                         *)
(* Strings are sequences of fragments (single characters for HTTP methods, *)
(* so that toLowerCase is computed character by character).  An optional   *)
(* JavaScript value is <<>> (undefined) or <<v>>.                          *)
(***************************************************************************)
EXTENDS Integers, Sequences, FiniteSets, TLC

\* ----------------------------------------------------------------- bounds

MaxEndpoints == 2

MaxDecorators == 2

MaxInFlight == 2

\* ------------------------------------------------------------ JS helpers

Undefined == <<>>

Some(v) == <<v>>

IsDefined(o) == Len(o) > 0

ValueOf(o) == o[1]

UpperCaseLetters ==
  <<"A","B","C","D","E","F","G","H","I","J","K","L","M",
    "N","O","P","Q","R","S","T","U","V","W","X","Y","Z">>

LowerCaseLetters ==
  <<"a","b","c","d","e","f","g","h","i","j","k","l","m",
    "n","o","p","q","r","s","t","u","v","w","x","y","z">>

toLowerCaseChar(c) ==
  IF \E i \in 1..Len(UpperCaseLetters) : UpperCaseLetters[i] = c
    THEN LowerCaseLetters[CHOOSE i \in 1..Len(UpperCaseLetters) : UpperCaseLetters[i] = c]
    ELSE c

\* String.prototype.toLowerCase
toLowerCase(s) == [i \in 1..Len(s) |-> toLowerCaseChar(s[i])]

\* ---------------------------------------------------------- HTTP methods

m_get == <<"g","e","t">>
m_post == <<"p","o","s","t">>
m_put == <<"p","u","t">>
m_patch == <<"p","a","t","c","h">>
m_delete == <<"d","e","l","e","t","e">>
m_head == <<"h","e","a","d">>
m_options == <<"o","p","t","i","o","n","s">>
m_trace == <<"t","r","a","c","e">>
m_GET == <<"G","E","T">>
m_Post == <<"P","o","s","t">>
m_PURGE == <<"P","U","R","G","E">>
m_CONSTRUCTOR == <<"C","O","N","S","T","R","U","C","T","O","R">>
m_constructor == <<"c","o","n","s","t","r","u","c","t","o","r">>
m_proto == <<"_","_","p","r","o","t","o","_","_">>
m_undefined == <<"u","n","d","e","f","i","n","e","d">>

\* type HttpMethod
HttpMethod ==
  {m_get, m_post, m_put, m_patch, m_delete, m_head, m_options, m_trace}

\* --------------------------------------------------- zod (safeParse only)

\* A payload (query, request body, response body) is an object, modelled by
\* the sequence of its keys in insertion order.  A schema is z.object(shape),
\* optionally .strict().
KeysOf(obj) == {obj[i] : i \in 1..Len(obj)}

MissingKeys(schema, input) ==
  SelectSeq(schema.shape, LAMBDA k : k \notin KeysOf(input))

ExtraKeys(schema, input) ==
  SelectSeq(input, LAMBDA k : k \notin KeysOf(schema.shape))

ZodIssues(schema, input) ==
  [i \in 1..Len(MissingKeys(schema, input)) |->
      [code |-> "invalid_type", path |-> <<MissingKeys(schema, input)[i]>>,
       keys |-> <<>>]]
  \o (IF schema.strict /\ Len(ExtraKeys(schema, input)) > 0
        THEN <<[code |-> "unrecognized_keys", path |-> <<>>,
                keys |-> ExtraKeys(schema, input)]>>
        ELSE <<>>)

\* ZodType.safeParse: never throws; success with the normalised data (unknown
\* keys stripped) or failure with a ZodError carrying the issues.
safeParse(schema, input) ==
  IF Len(ZodIssues(schema, input)) = 0
    THEN [success |-> TRUE,
          data |-> SelectSeq(input, LAMBDA k : k \in KeysOf(schema.shape)),
          error |-> [errors |-> <<>>]]
    ELSE [success |-> FALSE, data |-> <<>>,
          error |-> [errors |-> ZodIssues(schema, input)]]

\* z.object({ id: z.string() })
QuerySchema == [shape |-> <<"id">>, strict |-> FALSE]

\* z.object({ name: z.string() }).strict()
BodySchema == [shape |-> <<"name">>, strict |-> TRUE]

\* z.object({ product: z.object(...) }).strict()
ResponseSchema == [shape |-> <<"product">>, strict |-> TRUE]

\* ------------------------------------------------------- JSON.stringify

RECURSIVE JoinStrings(_)
JoinStrings(ss) ==
  IF Len(ss) = 0 THEN <<>>
  ELSE IF Len(ss) = 1 THEN ss[1]
  ELSE ss[1] \o <<",">> \o JoinStrings(Tail(ss))

StringifyKeys(ks) ==
  JoinStrings([i \in 1..Len(ks) |-> <<"\"", ks[i], "\"">>])

StringifyIssue(issue) ==
  <<"{\"code\":\"", issue.code, "\",\"path\":[">> \o StringifyKeys(issue.path)
  \o <<"],\"keys\":[">> \o StringifyKeys(issue.keys) \o <<"]}">>

\* JSON.stringify({ errors })
errorResponse(zodError) ==
  <<"{\"errors\":[">>
  \o JoinStrings([i \in 1..Len(zodError.errors) |-> StringifyIssue(zodError.errors[i])])
  \o <<"]}">>

\* ------------------------------------------------------------- endpoint()

\* The options a declaration may carry: every key is present, an omitted
\* option is undefined.  context and handler are user functions, named by
\* the number of the endpoint that declares them.
EndpointOptions(m, q, b, rs, c) ==
  [method |-> m, querySchema |-> q, bodySchema |-> b, responseSchema |-> rs,
   context |-> c]

endpointLowerCasingMethod(options, handler) ==
  [k \in DOMAIN options \cup {"handler"} |->
     IF k = "handler" THEN handler
     ELSE IF k = "method" THEN toLowerCase(options[k]) ELSE options[k]]

\* endpoint(options, handler) == ({ ...options, handler })
endpoint(options, handler) ==
  [k \in DOMAIN options \cup {"handler"} |->
     IF k = "handler" THEN handler ELSE options[k]]

\* ------------------------------------------------ plain-object semantics

\* Members every object literal inherits from Object.prototype whose names
\* are all lower case (a lower-cased method string can name no other).
ObjectPrototypeKeys == {m_constructor, m_proto}

\* What such a member looks like when it is used as an endpoint definition:
\* none of the endpoint fields is defined on it.
InheritedMember ==
  [method |-> Undefined, querySchema |-> Undefined, bodySchema |-> Undefined,
   responseSchema |-> Undefined, context |-> Undefined, handler |-> Undefined]

\* obj[key] on a plain object: own property, else inherited, else undefined
GetProperty(obj, key) ==
  IF key \in DOMAIN obj THEN Some(obj[key])
  ELSE IF key \in ObjectPrototypeKeys THEN Some(InheritedMember)
  ELSE Undefined

\* { ...obj, [key]: value }
SetProperty(obj, key, value) ==
  [k \in DOMAIN obj \cup {key} |-> IF k = key THEN value ELSE obj[k]]

\* ------------------------------------------------------------ asHandler()

DuplicateError(method) ==
  [name |-> "Error", message |-> <<"Duplicate endpoint definition for ">> \o method,
   issues |-> <<>>]

RECURSIVE reduceEndpointsLastWins(_, _)
reduceEndpointsLastWins(acc, rest) ==
  IF Len(rest) = 0 THEN acc
  ELSE reduceEndpointsLastWins(
         [acc EXCEPT !.map = SetProperty(acc.map, toLowerCase(Head(rest).method), Head(rest))],
         Tail(rest))

\* endpoints.reduce((endpoints, endpointDef) => ..., {}): the method index,
\* or the error thrown on the first endpoint whose method is already there.
RECURSIVE reduceEndpoints(_, _)
reduceEndpoints(acc, rest) ==
  IF Len(rest) = 0 THEN acc
  ELSE LET endpointDef == Head(rest)
           method == toLowerCase(endpointDef.method)
       IN IF IsDefined(GetProperty(acc.map, method))
            THEN [threw |-> TRUE, error |-> Some(DuplicateError(method)), map |-> acc.map]
            ELSE reduceEndpoints(
                   [acc EXCEPT !.map = SetProperty(acc.map, method, endpointDef)],
                   Tail(rest))

EmptyIndex == [threw |-> FALSE, error |-> Undefined, map |-> <<>>]

\* ------------------------------------------------------ decorateHandler()

\* A NextApiHandler built from outerHandler is the sequence of the decorators
\* wrapped around it, outermost first; outerHandler itself is <<>>.
outerHandler == <<>>

ApplyDecorator(decorator, wrappedHandler) == <<decorator>> \o wrappedHandler

RECURSIVE decorateHandlerRightToLeft(_, _)
decorateHandlerRightToLeft(handler, decs) ==
  IF Len(decs) = 0 THEN handler
  ELSE ApplyDecorator(Head(decs), decorateHandlerRightToLeft(handler, Tail(decs)))

decorateHandlerInstrumented(handler, decs) ==
  IF Len(decs) = 0 THEN ApplyDecorator([name |-> "default", kind |-> "wrap"], handler)
  ELSE [i \in 1..Len(decs) |-> decs[Len(decs) + 1 - i]] \o handler

decorateHandlerLastOnly(handler, decs) ==
  IF Len(decs) = 0 THEN handler
  ELSE ApplyDecorator(decs[Len(decs)], handler)

\* decorators.reduce((wrappedHandler, decorator) => decorator(wrappedHandler), handler)
RECURSIVE decorateHandler(_, _)
decorateHandler(handler, decs) ==
  IF Len(decs) = 0 THEN handler
  ELSE decorateHandler(ApplyDecorator(Head(decs), handler), Tail(decs))

\* ------------------------------------- validateEndpointSchemaForRequest()

validateBodyFirst(endpointDef, req) ==
  LET b == endpointDef.bodySchema
      q == endpointDef.querySchema
  IN IF IsDefined(b) /\ ~safeParse(ValueOf(b), req.body).success
       THEN [failed |-> TRUE, body |-> errorResponse(safeParse(ValueOf(b), req.body).error),
             evaluated |-> <<"body">>]
     ELSE IF IsDefined(q) /\ ~safeParse(ValueOf(q), req.query).success
       THEN [failed |-> TRUE, body |-> errorResponse(safeParse(ValueOf(q), req.query).error),
             evaluated |-> (IF IsDefined(b) THEN <<"body">> ELSE <<>>) \o <<"query">>]
     ELSE [failed |-> FALSE, body |-> <<>>,
           evaluated |-> (IF IsDefined(b) THEN <<"body">> ELSE <<>>)
                         \o (IF IsDefined(q) THEN <<"query">> ELSE <<>>)]

\* The serialized errors of the first failing schema (query, then body), or
\* nothing; evaluated lists the schemas safeParse was called on, in order.
validateEndpointSchemaForRequest(endpointDef, req) ==
  LET q == endpointDef.querySchema
      b == endpointDef.bodySchema
  IN IF IsDefined(q) /\ ~safeParse(ValueOf(q), req.query).success
       THEN [failed |-> TRUE, body |-> errorResponse(safeParse(ValueOf(q), req.query).error),
             evaluated |-> <<"query">>]
     ELSE IF IsDefined(b) /\ ~safeParse(ValueOf(b), req.body).success
       THEN [failed |-> TRUE, body |-> errorResponse(safeParse(ValueOf(b), req.body).error),
             evaluated |-> (IF IsDefined(q) THEN <<"query">> ELSE <<>>) \o <<"body">>]
     ELSE [failed |-> FALSE, body |-> <<>>,
           evaluated |-> (IF IsDefined(q) THEN <<"query">> ELSE <<>>)
                         \o (IF IsDefined(b) THEN <<"body">> ELSE <<>>)]

\* ------------------------------------------------- values and environment

\* Values that appear in a handler context.
ReqHandle(r) == [kind |-> "req", ref |-> r, obj |-> <<>>]

ResHandle(r) == [kind |-> "res", ref |-> r, obj |-> <<>>]

Payload(p) == [kind |-> "object", ref |-> 0, obj |-> p]

BuilderValue(tag) == [kind |-> "built", ref |-> 0, obj |-> <<tag>>]

\* { ...a, ...b }
Merge(a, b) ==
  [k \in DOMAIN a \cup DOMAIN b |-> IF k \in DOMAIN b THEN b[k] ELSE a[k]]

\* createRouteContext({ req, res })
createRouteContext(baseContext) == [k \in DOMAIN baseContext |-> baseContext[k]]

JsError(name, message) == [name |-> name, message |-> message, issues |-> <<>>]

\* The ZodError a failed safeParse carries.
ZodError(error) == [name |-> "ZodError", message |-> <<>>, issues |-> error.errors]

NotAFunction == JsError("TypeError", <<"handler is not a function">>)

\* status || fallback, redirect ? ... : ..., body && ...
TruthyNumber(o) == IsDefined(o) /\ ValueOf(o) # 0

TruthyString(o) == IsDefined(o) /\ Len(ValueOf(o)) > 0

TruthyObject(o) == IsDefined(o)

OrDefault(o, fallback) == IF TruthyNumber(o) THEN ValueOf(o) ELSE fallback

\* What requests carry.
RequestMethods ==
  {Some(m_GET), Some(m_post), Some(m_PURGE), Some(m_CONSTRUCTOR), Undefined}

QueryInputs == {<<>>, <<"id">>, <<"id", "junk">>}

BodyInputs == {<<>>, <<"name">>, <<"name", "junk">>}

\* What a context builder may settle with.
ExtraContexts ==
  {[x |-> BuilderValue("1")],
   [query |-> BuilderValue("clobber"), body |-> BuilderValue("clobber")],
   [req |-> BuilderValue("fake")]}

ContextError == JsError("Error", <<"context failed">>)

\* What an endpoint handler may settle with.
HandlerError == JsError("Error", <<"handler failed">>)

ResultHeaders == <<<<"x-a", "1">>, <<"x-b", "2">>>>

HandlerResults ==
  [status : {Undefined, Some(0), Some(201)},
   redirect : {Undefined, Some(<<"/login">>)},
   body : {Undefined, Some(<<"product">>), Some(<<"oops">>)},
   headers : {Undefined, Some(ResultHeaders)}]

\* ---------------------------------------------------------------- state

VARIABLES
  declared,         \* the options given to the endpoint() calls, in order
  endpoints,        \* what the endpoint() calls returned: asHandler's argument
  decorators,       \* options.decorators
  ctor,             \* "pending", "returned" or "threw": asHandler's call
  ctorError,        \* the error asHandler threw
  methodEndpoints,  \* the method index asHandler's closure holds
  handlerChain,     \* the NextApiHandler asHandler returned
  pc,               \* per invocation: where it stands
  req,              \* per invocation: the request object
  res,              \* per invocation: the response object
  depth,            \* per invocation: decorators entered and not yet left
  endpointDef,      \* outerHandler's local
  endpointContext,  \* outerHandler's local
  result,           \* what the endpoint handler resolved with
  exc,              \* the error in flight, if any
  trace,            \* per invocation: calls made, in order
  raised,           \* what the promise of the returned handler rejected with
  running,          \* the invocation whose synchronous run is on the stack
  routed            \* the older route(endpoints) call: outcome and closure

ctorVars ==
  <<declared, endpoints, decorators, ctor, ctorError, methodEndpoints, handlerChain,
    routed>>

vars ==
  <<declared, endpoints, decorators, ctor, ctorError, methodEndpoints, handlerChain, pc,
    req, res, depth, endpointDef, endpointContext, result, exc, trace, raised,
    running, routed>>

ReqIds == 1..MaxInFlight

NoRequest == [method |-> Undefined, query |-> <<>>, body |-> <<>>]

Ev(ev, by, ep, arg) == [ev |-> ev, by |-> by, ep |-> ep, arg |-> arg]

\* ------------------------------------------------------- response object

\* A fresh ServerResponse; calls lists the calls made on it, in order.
NewResponse ==
  [statusCode |-> 200, headers |-> <<>>, body |-> Undefined,
   location |-> Undefined, finished |-> FALSE, calls |-> <<>>]

resStatus(rs, code) ==
  [rs EXCEPT !.statusCode = code,
             !.calls = Append(@, Ev("status", "", 0, <<code>>))]

resEnd(rs, body) ==
  [rs EXCEPT !.body = body, !.finished = TRUE,
             !.calls = Append(@, Ev("end", "", 0, body))]

resSend(rs, body) ==
  [rs EXCEPT !.body = body, !.finished = TRUE,
             !.calls = Append(@, Ev("send", "", 0, body))]

resRedirect(rs, code, url) ==
  [rs EXCEPT !.statusCode = code, !.location = Some(url), !.body = Some(url),
             !.finished = TRUE,
             !.calls = Append(@, Ev("redirect", "", 0, <<code, url>>))]

resSetHeader(rs, name, value) ==
  [rs EXCEPT !.headers = SetProperty(rs.headers, name, value),
             !.calls = Append(@, Ev("setHeader", "", 0, <<name, value>>))]

\* The calls made on the response between two of its states, attributed.
NewCalls(old, new, by) ==
  [i \in 1..(Len(new.calls) - Len(old.calls)) |->
     [new.calls[Len(old.calls) + i] EXCEPT !.by = by]]

setResponseHeadersFirstOnly(rs, headers) ==
  IF ~IsDefined(headers) \/ Len(ValueOf(headers)) = 0 THEN rs
  ELSE resSetHeader(rs, ValueOf(headers)[1][1], ValueOf(headers)[1][2])

\* Object.entries(headers).forEach(([name, value]) => res.setHeader(name, value))
RECURSIVE setResponseHeaders(_, _)
setResponseHeaders(rs, headers) ==
  IF ~IsDefined(headers) \/ Len(ValueOf(headers)) = 0 THEN rs
  ELSE setResponseHeaders(
         resSetHeader(rs, ValueOf(headers)[1][1], ValueOf(headers)[1][2]),
         Some(Tail(ValueOf(headers))))

\* ----------------------------------------- outerHandler, straight-line parts

\* req.method?.toLowerCase(), used as a property key
MethodKey(request) ==
  IF IsDefined(request.method) THEN toLowerCase(ValueOf(request.method))
  ELSE m_undefined

\* res.status(404).end()
notFound(rs) == resEnd(resStatus(rs, 404), Undefined)

badRequestAs500(rs, errors) == resEnd(resStatus(rs, 500), Some(errors))

\* res.status(400).end(schemaValidationErrors)
badRequest(rs, errors) == resEnd(resStatus(rs, 400), Some(errors))

serverErrorStatusOnly(rs) == resStatus(rs, 500)

\* res.status(500).end()
serverError(rs) == resEnd(resStatus(rs, 500), Undefined)

handlerContextBaseLast(r, request, extra) ==
  Merge(Merge(extra,
              [query |-> Payload(request.query), body |-> Payload(request.body)]),
        createRouteContext([req |-> ReqHandle(r), res |-> ResHandle(r)]))

handlerContextBuilderLast(r, request, extra) ==
  Merge(Merge(createRouteContext([req |-> ReqHandle(r), res |-> ResHandle(r)]),
              [query |-> Payload(request.query), body |-> Payload(request.body)]),
        extra)

\* { ...routeContext, ...endpointContext, query: req.query, body: req.body }
handlerContext(r, request, extra) ==
  Merge(Merge(createRouteContext([req |-> ReqHandle(r), res |-> ResHandle(r)]),
              extra),
        [query |-> Payload(request.query), body |-> Payload(request.body)])

responseParseSkipped(def, handlerResult) ==
  [evaluated |-> FALSE, ok |-> TRUE, error |-> Undefined]

responseParseWithoutBody(def, handlerResult) ==
  IF IsDefined(def.responseSchema)
    THEN LET parse == safeParse(ValueOf(def.responseSchema),
                                IF IsDefined(handlerResult.body)
                                  THEN ValueOf(handlerResult.body) ELSE <<>>)
         IN [evaluated |-> TRUE, ok |-> parse.success,
             error |-> IF parse.success THEN Undefined ELSE Some(ZodError(parse.error))]
    ELSE [evaluated |-> FALSE, ok |-> TRUE, error |-> Undefined]

responseParseUnlessRedirect(def, handlerResult) ==
  IF /\ ~TruthyString(handlerResult.redirect)
     /\ TruthyObject(handlerResult.body)
     /\ IsDefined(def.responseSchema)
    THEN LET parse == safeParse(ValueOf(def.responseSchema), ValueOf(handlerResult.body))
         IN [evaluated |-> TRUE, ok |-> parse.success,
             error |-> IF parse.success THEN Undefined ELSE Some(ZodError(parse.error))]
    ELSE [evaluated |-> FALSE, ok |-> TRUE, error |-> Undefined]

\* if (body && endpointDef.responseSchema) { safeParse(body) ... throw }
responseParse(def, handlerResult) ==
  IF TruthyObject(handlerResult.body) /\ IsDefined(def.responseSchema)
    THEN LET parse == safeParse(ValueOf(def.responseSchema), ValueOf(handlerResult.body))
         IN [evaluated |-> TRUE, ok |-> parse.success,
             error |-> IF parse.success THEN Undefined ELSE Some(ZodError(parse.error))]
    ELSE [evaluated |-> FALSE, ok |-> TRUE, error |-> Undefined]

emitStatusIgnored(rs, handlerResult) ==
  IF TruthyString(handlerResult.redirect)
    THEN resRedirect(rs, 307, ValueOf(handlerResult.redirect))
    ELSE resSend(resStatus(rs, 200), handlerResult.body)

emitStatusOnly(rs, handlerResult) ==
  resStatus(rs, OrDefault(handlerResult.status,
                          IF TruthyString(handlerResult.redirect) THEN 307 ELSE 200))

\* if (redirect) res.redirect(status || 307, redirect)
\* else res.status(status || 200).send(body)
emit(rs, handlerResult) ==
  IF TruthyString(handlerResult.redirect)
    THEN resRedirect(rs, OrDefault(handlerResult.status, 307), ValueOf(handlerResult.redirect))
    ELSE resSend(resStatus(rs, OrDefault(handlerResult.status, 200)), handlerResult.body)

\* ----------------------------------------------------------- decorators

\* A decorator is user code.  Three shapes are modelled: "wrap" runs its
\* pre-logic, awaits the handler it wraps and runs its post-logic; "short"
\* answers the request itself and never delegates; "throw" raises in its own
\* logic before delegating.
Decorator(name, kind) == [name |-> name, kind |-> kind]

DecoratorError(name) == JsError("Error", <<"decorator failed: ", name>>)

\* return res.status(500).json({ message: 'broked' })
decoratorAnswer(rs) == resSend(resStatus(rs, 500), Some(<<"broked">>))

\* --------------------------------------------------------------- actions

Log(r, events) == trace' = [trace EXCEPT ![r] = @ \o events]

reqLocals == <<endpointDef, endpointContext, result>>

\* The module declares its next endpoint: endpoint(options, handler), with
\* handler i (and context builder i, when there is one) in position i.
Declare ==
  /\ ctor = "pending"
  /\ Len(endpoints) < Len(declared)
  /\ endpoints' = Append(endpoints,
                         endpoint(declared[Len(endpoints) + 1], Some(Len(endpoints) + 1)))
  /\ UNCHANGED <<declared, decorators, ctor, ctorError, methodEndpoints, handlerChain,
                 pc, req, res, depth, endpointDef, endpointContext, result, exc,
                 trace, raised, running, routed>>

\* asHandler(endpoints, { decorators })
AsHandler ==
  /\ ctor = "pending"
  /\ Len(endpoints) = Len(declared)
  /\ LET index == reduceEndpoints(EmptyIndex, endpoints)
     IN IF index.threw
          THEN /\ ctor' = "threw"
               /\ ctorError' = index.error
               /\ UNCHANGED <<methodEndpoints, handlerChain>>
          ELSE /\ ctor' = "returned"
               /\ methodEndpoints' = index.map
               /\ handlerChain' = decorateHandler(outerHandler, decorators)
               /\ UNCHANGED ctorError
  /\ UNCHANGED <<declared, endpoints, decorators, pc, req, res, depth, endpointDef,
                 endpointContext, result, exc, trace, raised, running, routed>>

\* The host calls the returned handler with a request and a response.
Invoke(r) ==
  /\ ctor = "returned"
  /\ running = 0
  /\ pc[r] = "idle"
  /\ \E m \in RequestMethods, q \in QueryInputs, b \in BodyInputs :
       req' = [req EXCEPT ![r] = [method |-> m, query |-> q, body |-> b]]
  /\ pc' = [pc EXCEPT ![r] = IF Len(handlerChain) = 0 THEN "resolve" ELSE "decorator"]
  /\ running' = r
  /\ UNCHANGED <<ctorVars, res, depth, reqLocals, exc, trace, raised>>

DecoratorEnterErrorCaught(r) ==
  /\ running = r
  /\ pc[r] = "decorator"
  /\ LET d == handlerChain[depth[r] + 1]
         pre == Ev("decorator_pre", d.name, 0, <<ReqHandle(r), ResHandle(r)>>)
     IN IF d.kind = "wrap"
          THEN /\ Log(r, <<pre>>)
               /\ depth' = [depth EXCEPT ![r] = @ + 1]
               /\ pc' = [pc EXCEPT ![r] =
                           IF depth[r] + 1 = Len(handlerChain) THEN "resolve" ELSE "decorator"]
               /\ UNCHANGED <<res, exc, running>>
          ELSE /\ res' = [res EXCEPT ![r] =
                            IF d.kind = "short" THEN decoratorAnswer(@) ELSE serverError(@)]
               /\ Log(r, <<pre>>)
               /\ exc' = [exc EXCEPT ![r] =
                            IF d.kind = "short" THEN @ ELSE Some(DecoratorError(d.name))]
               /\ pc' = [pc EXCEPT ![r] = "unwind"]
               /\ running' = 0
               /\ UNCHANGED depth
  /\ UNCHANGED <<ctorVars, req, reqLocals, raised>>

DecoratorEnterAlwaysDelegates(r) ==
  /\ running = r
  /\ pc[r] = "decorator"
  /\ LET d == handlerChain[depth[r] + 1]
         pre == Ev("decorator_pre", d.name, 0, <<ReqHandle(r), ResHandle(r)>>)
         after == IF d.kind = "short" THEN decoratorAnswer(res[r]) ELSE res[r]
     IN /\ res' = [res EXCEPT ![r] = after]
        /\ Log(r, <<pre>> \o NewCalls(res[r], after, d.name))
  /\ depth' = [depth EXCEPT ![r] = @ + 1]
  /\ pc' = [pc EXCEPT ![r] =
              IF depth[r] + 1 = Len(handlerChain) THEN "resolve" ELSE "decorator"]
  /\ UNCHANGED <<ctorVars, req, reqLocals, exc, raised, running>>

\* The next decorator, outermost first, is entered.
DecoratorEnter(r) ==
  /\ running = r
  /\ pc[r] = "decorator"
  /\ LET d == handlerChain[depth[r] + 1]
         pre == Ev("decorator_pre", d.name, 0, <<ReqHandle(r), ResHandle(r)>>)
     IN IF d.kind = "wrap"
          THEN /\ Log(r, <<pre>>)
               /\ depth' = [depth EXCEPT ![r] = @ + 1]
               /\ pc' = [pc EXCEPT ![r] =
                           IF depth[r] + 1 = Len(handlerChain) THEN "resolve" ELSE "decorator"]
               /\ UNCHANGED <<res, exc, running>>
        ELSE IF d.kind = "short"
          THEN /\ res' = [res EXCEPT ![r] = decoratorAnswer(@)]
               /\ Log(r, <<pre>> \o NewCalls(res[r], decoratorAnswer(res[r]), d.name))
               /\ pc' = [pc EXCEPT ![r] = "unwind"]
               /\ running' = 0
               /\ UNCHANGED <<depth, exc>>
          ELSE /\ Log(r, <<pre>>)
               /\ exc' = [exc EXCEPT ![r] = Some(DecoratorError(d.name))]
               /\ pc' = [pc EXCEPT ![r] = "unwind"]
               /\ running' = 0
               /\ UNCHANGED <<depth, res>>
  /\ UNCHANGED <<ctorVars, req, reqLocals, raised>>

\* The handler a decorator awaited has settled: its post-logic runs, or the
\* rejection passes through it.
DecoratorLeave(r) ==
  /\ running = 0
  /\ pc[r] = "unwind"
  /\ depth[r] > 0
  /\ LET d == handlerChain[depth[r]]
     IN Log(r, <<Ev(IF IsDefined(exc[r]) THEN "decorator_rejected" ELSE "decorator_post",
                    d.name, 0, exc[r])>>)
  /\ depth' = [depth EXCEPT ![r] = @ - 1]
  /\ UNCHANGED <<ctorVars, pc, req, res, reqLocals, exc, raised, running>>

\* The promise the returned handler gave the host settles.
Settle(r) ==
  /\ running = 0
  /\ pc[r] = "unwind"
  /\ depth[r] = 0
  /\ pc' = [pc EXCEPT ![r] = "done"]
  /\ raised' = [raised EXCEPT ![r] = exc[r]]
  /\ UNCHANGED <<ctorVars, req, res, depth, reqLocals, exc, trace, running>>

\* const endpointDef = methodEndpoints[method]; if (!endpointDef) 404
CoreResolveFirstEndpoint(r) ==
  /\ running = r
  /\ pc[r] = "resolve"
  /\ LET def == GetProperty(methodEndpoints, MethodKey(req[r]))
         lookup == Ev("lookup", "core", 0, MethodKey(req[r]))
     IN IF ~IsDefined(def)
          THEN /\ res' = [res EXCEPT ![r] = notFound(@)]
               /\ Log(r, <<lookup>> \o NewCalls(res[r], notFound(res[r]), "core"))
               /\ pc' = [pc EXCEPT ![r] = "unwind"]
               /\ running' = 0
               /\ UNCHANGED endpointDef
          ELSE /\ endpointDef' = [endpointDef EXCEPT ![r] =
                    IF Len(endpoints) = 0 THEN def
                    ELSE GetProperty(methodEndpoints, toLowerCase(endpoints[1].method))]
               /\ Log(r, <<lookup>>)
               /\ pc' = [pc EXCEPT ![r] = "validate"]
               /\ UNCHANGED <<res, running>>
  /\ UNCHANGED <<ctorVars, req, depth, endpointContext, result, exc, raised>>

CoreResolve(r) ==
  /\ running = r
  /\ pc[r] = "resolve"
  /\ LET def == GetProperty(methodEndpoints, MethodKey(req[r]))
         lookup == Ev("lookup", "core", 0, MethodKey(req[r]))
     IN IF ~IsDefined(def)
          THEN /\ res' = [res EXCEPT ![r] = notFound(@)]
               /\ Log(r, <<lookup>> \o NewCalls(res[r], notFound(res[r]), "core"))
               /\ pc' = [pc EXCEPT ![r] = "unwind"]
               /\ running' = 0
               /\ UNCHANGED endpointDef
          ELSE /\ endpointDef' = [endpointDef EXCEPT ![r] = def]
               /\ Log(r, <<lookup>>)
               /\ pc' = [pc EXCEPT ![r] = "validate"]
               /\ UNCHANGED <<res, running>>
  /\ UNCHANGED <<ctorVars, req, depth, endpointContext, result, exc, raised>>

EndpointId(def) == IF IsDefined(def.handler) THEN ValueOf(def.handler) ELSE 0

CoreValidateFallsThrough(r) ==
  /\ running = r
  /\ pc[r] = "validate"
  /\ LET def == ValueOf(endpointDef[r])
         v == validateEndpointSchemaForRequest(def, req[r])
     IN IF v.failed
          THEN /\ res' = [res EXCEPT ![r] = badRequest(@, v.body)]
               /\ Log(r, NewCalls(res[r], badRequest(res[r], v.body), "core"))
          ELSE UNCHANGED <<res, trace>>
  /\ pc' = [pc EXCEPT ![r] = "context"]
  /\ UNCHANGED <<ctorVars, req, depth, reqLocals, exc, raised, running>>

\* validateEndpointSchemaForRequest(endpointDef, req); if (errors) 400
CoreValidate(r) ==
  /\ running = r
  /\ pc[r] = "validate"
  /\ LET def == ValueOf(endpointDef[r])
         v == validateEndpointSchemaForRequest(def, req[r])
         parses == [i \in 1..Len(v.evaluated) |->
                      Ev("safeParse", "core", EndpointId(def), <<v.evaluated[i]>>)]
     IN IF v.failed
          THEN /\ res' = [res EXCEPT ![r] = badRequest(@, v.body)]
               /\ Log(r, parses \o NewCalls(res[r], badRequest(res[r], v.body), "core"))
               /\ pc' = [pc EXCEPT ![r] = "unwind"]
               /\ running' = 0
          ELSE /\ Log(r, parses)
               /\ pc' = [pc EXCEPT ![r] = "context"]
               /\ UNCHANGED <<res, running>>
  /\ UNCHANGED <<ctorVars, req, depth, reqLocals, exc, raised>>

CoreContextNotAwaited(r) ==
  /\ running = r
  /\ pc[r] = "context"
  /\ LET def == ValueOf(endpointDef[r])
     IN Log(r, IF IsDefined(def.context)
                 THEN <<Ev("context_call", "core", ValueOf(def.context),
                           createRouteContext([req |-> ReqHandle(r), res |-> ResHandle(r)]))>>
                 ELSE <<>>)
  /\ endpointContext' = [endpointContext EXCEPT ![r] = <<>>]
  /\ pc' = [pc EXCEPT ![r] = "call_handler"]
  /\ UNCHANGED <<ctorVars, req, res, depth, endpointDef, result, exc, raised, running>>

\* endpointDef.context ? await endpointDef.context(routeContext) : {}
CoreContext(r) ==
  /\ running = r
  /\ pc[r] = "context"
  /\ LET def == ValueOf(endpointDef[r])
     IN IF IsDefined(def.context)
          THEN /\ Log(r, <<Ev("context_call", "core", ValueOf(def.context),
                              createRouteContext([req |-> ReqHandle(r), res |-> ResHandle(r)]))>>)
               /\ pc' = [pc EXCEPT ![r] = "await_context"]
               /\ running' = 0
               /\ UNCHANGED endpointContext
          ELSE /\ endpointContext' = [endpointContext EXCEPT ![r] = <<>>]
               /\ pc' = [pc EXCEPT ![r] = "call_handler"]
               /\ UNCHANGED <<trace, running>>
  /\ UNCHANGED <<ctorVars, req, res, depth, endpointDef, result, exc, raised>>

ContextSettleErrorIgnored(r) ==
  /\ running = 0
  /\ pc[r] = "await_context"
  /\ \/ \E extra \in ExtraContexts :
          /\ endpointContext' = [endpointContext EXCEPT ![r] = extra]
          /\ Log(r, <<Ev("context_return", "context", 0, extra)>>)
     \/ /\ endpointContext' = [endpointContext EXCEPT ![r] = <<>>]
        /\ Log(r, <<Ev("context_throw", "context", 0, Some(ContextError))>>)
  /\ pc' = [pc EXCEPT ![r] = "call_handler"]
  /\ running' = r
  /\ UNCHANGED <<ctorVars, req, res, depth, endpointDef, result, exc, raised>>

\* The context builder resolves with an object, or throws / rejects.
ContextSettle(r) ==
  /\ running = 0
  /\ pc[r] = "await_context"
  /\ \/ \E extra \in ExtraContexts :
          /\ endpointContext' = [endpointContext EXCEPT ![r] = extra]
          /\ Log(r, <<Ev("context_return", "context", 0, extra)>>)
          /\ pc' = [pc EXCEPT ![r] = "call_handler"]
          /\ UNCHANGED exc
     \/ /\ exc' = [exc EXCEPT ![r] = Some(ContextError)]
        /\ Log(r, <<Ev("context_throw", "context", 0, Some(ContextError))>>)
        /\ pc' = [pc EXCEPT ![r] = "catch"]
        /\ UNCHANGED endpointContext
  /\ running' = r
  /\ UNCHANGED <<ctorVars, req, res, depth, endpointDef, result, raised>>

CoreCallHandlerSharedContext(r) ==
  /\ running = r
  /\ pc[r] = "call_handler"
  /\ LET def == ValueOf(endpointDef[r])
     IN IF IsDefined(def.handler)
          THEN /\ Log(r, <<Ev("handler_call", "core", ValueOf(def.handler),
                              handlerContext(r, req[r], endpointContext[1]))>>)
               /\ pc' = [pc EXCEPT ![r] = "await_handler"]
               /\ running' = 0
               /\ UNCHANGED exc
          ELSE /\ exc' = [exc EXCEPT ![r] = Some(NotAFunction)]
               /\ pc' = [pc EXCEPT ![r] = "catch"]
               /\ UNCHANGED <<trace, running>>
  /\ UNCHANGED <<ctorVars, req, res, depth, reqLocals, raised>>

\* await handler({ ...routeContext, ...endpointContext, query, body })
CoreCallHandler(r) ==
  /\ running = r
  /\ pc[r] = "call_handler"
  /\ LET def == ValueOf(endpointDef[r])
     IN IF IsDefined(def.handler)
          THEN /\ Log(r, <<Ev("handler_call", "core", ValueOf(def.handler),
                              handlerContext(r, req[r], endpointContext[r]))>>)
               /\ pc' = [pc EXCEPT ![r] = "await_handler"]
               /\ running' = 0
               /\ UNCHANGED exc
          ELSE /\ exc' = [exc EXCEPT ![r] = Some(NotAFunction)]
               /\ pc' = [pc EXCEPT ![r] = "catch"]
               /\ UNCHANGED <<trace, running>>
  /\ UNCHANGED <<ctorVars, req, res, depth, reqLocals, raised>>

\* The endpoint handler resolves with a result, or throws / rejects.
HandlerSettle(r) ==
  /\ running = 0
  /\ pc[r] = "await_handler"
  /\ \/ \E hr \in HandlerResults :
          /\ result' = [result EXCEPT ![r] = Some(hr)]
          /\ pc' = [pc EXCEPT ![r] = "validate_response"]
          /\ UNCHANGED <<exc, trace>>
     \/ /\ exc' = [exc EXCEPT ![r] = Some(HandlerError)]
        /\ Log(r, <<Ev("handler_throw", "handler", 0, Some(HandlerError))>>)
        /\ pc' = [pc EXCEPT ![r] = "catch"]
        /\ UNCHANGED result
  /\ running' = r
  /\ UNCHANGED <<ctorVars, req, res, depth, endpointDef, endpointContext, raised>>

CoreValidateResponseHeadersFirst(r) ==
  /\ running = r
  /\ pc[r] = "validate_response"
  /\ LET def == ValueOf(endpointDef[r])
         parse == responseParse(def, ValueOf(result[r]))
         after == setResponseHeaders(res[r], ValueOf(result[r]).headers)
     IN /\ res' = [res EXCEPT ![r] = after]
        /\ Log(r, NewCalls(res[r], after, "core") \o
                  (IF parse.evaluated
                     THEN <<Ev("safeParse", "core", EndpointId(def), <<"response">>)>>
                     ELSE <<>>))
        /\ IF parse.ok
             THEN /\ pc' = [pc EXCEPT ![r] = "headers"]
                  /\ UNCHANGED exc
             ELSE /\ exc' = [exc EXCEPT ![r] = parse.error]
                  /\ pc' = [pc EXCEPT ![r] = "catch"]
  /\ UNCHANGED <<ctorVars, req, depth, endpointDef, endpointContext, result, raised, running>>

\* if (body && endpointDef.responseSchema) ... throw responseSchemaParse.error
CoreValidateResponse(r) ==
  /\ running = r
  /\ pc[r] = "validate_response"
  /\ LET def == ValueOf(endpointDef[r])
         parse == responseParse(def, ValueOf(result[r]))
     IN /\ Log(r, IF parse.evaluated
                    THEN <<Ev("safeParse", "core", EndpointId(def), <<"response">>)>>
                    ELSE <<>>)
        /\ IF parse.ok
             THEN /\ pc' = [pc EXCEPT ![r] = "headers"]
                  /\ UNCHANGED exc
             ELSE /\ exc' = [exc EXCEPT ![r] = parse.error]
                  /\ pc' = [pc EXCEPT ![r] = "catch"]
  /\ UNCHANGED <<ctorVars, req, res, depth, reqLocals, raised, running>>

\* setResponseHeaders(res, headers)
CoreSetHeaders(r) ==
  /\ running = r
  /\ pc[r] = "headers"
  /\ LET after == setResponseHeaders(res[r], ValueOf(result[r]).headers)
     IN /\ res' = [res EXCEPT ![r] = after]
        /\ Log(r, NewCalls(res[r], after, "core"))
  /\ pc' = [pc EXCEPT ![r] = "emit"]
  /\ UNCHANGED <<ctorVars, req, depth, reqLocals, exc, raised, running>>

\* res.redirect(status || 307, redirect) or res.status(status || 200).send(body)
CoreEmit(r) ==
  /\ running = r
  /\ pc[r] = "emit"
  /\ LET after == emit(res[r], ValueOf(result[r]))
     IN /\ res' = [res EXCEPT ![r] = after]
        /\ Log(r, NewCalls(res[r], after, "core"))
  /\ pc' = [pc EXCEPT ![r] = "unwind"]
  /\ running' = 0
  /\ UNCHANGED <<ctorVars, req, depth, reqLocals, exc, raised>>

\* What a method of the response object throws when it rejects its
\* arguments (an invalid header name or value, an invalid status code, a body
\* that cannot be serialized).  A call that throws has had no effect.
ResponseError == JsError("TypeError", <<"response rejected the call">>)

\* setResponseHeaders(res, headers), where one res.setHeader call throws:
\* the headers before it are set, the error leaves the try block.
CoreSetHeadersThrows(r) ==
  /\ running = r
  /\ pc[r] = "headers"
  /\ IsDefined(ValueOf(result[r]).headers)
  /\ \E k \in 0..(Len(ValueOf(ValueOf(result[r]).headers)) - 1) :
       LET hs == ValueOf(ValueOf(result[r]).headers)
           after == setResponseHeaders(res[r], Some(SubSeq(hs, 1, k)))
       IN /\ res' = [res EXCEPT ![r] = after]
          /\ Log(r, NewCalls(res[r], after, "core"))
  /\ exc' = [exc EXCEPT ![r] = Some(ResponseError)]
  /\ pc' = [pc EXCEPT ![r] = "catch"]
  /\ UNCHANGED <<ctorVars, req, depth, reqLocals, raised, running>>

\* Emission, where res.redirect(...) throws, or res.status(...) returns and
\* .send(body) throws.
CoreEmitThrows(r) ==
  /\ running = r
  /\ pc[r] = "emit"
  /\ LET hr == ValueOf(result[r])
         after == IF TruthyString(hr.redirect) THEN res[r]
                  ELSE resStatus(res[r], OrDefault(hr.status, 200))
     IN /\ res' = [res EXCEPT ![r] = after]
        /\ Log(r, NewCalls(res[r], after, "core"))
  /\ exc' = [exc EXCEPT ![r] = Some(ResponseError)]
  /\ pc' = [pc EXCEPT ![r] = "catch"]
  /\ UNCHANGED <<ctorVars, req, depth, reqLocals, raised, running>>

\* catch (error) { res.status(500).end(); ...
CoreCatch(r) ==
  /\ running = r
  /\ pc[r] = "catch"
  /\ LET after == serverError(res[r])
     IN /\ res' = [res EXCEPT ![r] = after]
        /\ Log(r, NewCalls(res[r], after, "core"))
  /\ pc' = [pc EXCEPT ![r] = "rethrow"]
  /\ UNCHANGED <<ctorVars, req, depth, reqLocals, exc, raised, running>>

rethrowSwallowed(e) == Undefined

\* ... throw error; }
rethrow(e) == e

CoreRethrow(r) ==
  /\ running = r
  /\ pc[r] = "rethrow"
  /\ exc' = [exc EXCEPT ![r] = rethrow(exc[r])]
  /\ Log(r, <<Ev("throw", "core", 0, rethrow(exc[r]))>>)
  /\ pc' = [pc EXCEPT ![r] = "unwind"]
  /\ running' = 0
  /\ UNCHANGED <<ctorVars, req, res, depth, reqLocals, raised>>

\* ------------------------------------------------------ the older route()

\* The invocation served by asHandler's handler and the one served by
\* route's handler when the two are run side by side.
AsHandlerRequest == 1

RouteRequest == 2

NotRouted ==
  [ctor |-> "pending", error |-> Undefined, methodEndpoints |-> <<>>, handler |-> <<>>]

\* route's endpoints.reduce((endpoints, endpointDef) => ..., {})
RECURSIVE route_reduceEndpoints(_, _)
route_reduceEndpoints(acc, rest) ==
  IF Len(rest) = 0 THEN acc
  ELSE LET def == Head(rest)
           method == toLowerCase(def.method)
       IN IF IsDefined(GetProperty(acc.map, method))
            THEN [threw |-> TRUE, error |-> Some(DuplicateError(method)), map |-> acc.map]
            ELSE route_reduceEndpoints(
                   [acc EXCEPT !.map = SetProperty(acc.map, method, def)],
                   Tail(rest))

\* route.ts's decorateHandler
RECURSIVE route_decorateHandler(_, _)
route_decorateHandler(handler, decs) ==
  IF Len(decs) = 0 THEN handler
  ELSE route_decorateHandler(ApplyDecorator(Head(decs), handler), Tail(decs))

\* routeHandler(handler) == decorateHandler(handler, [])
routeHandler(handler) == route_decorateHandler(handler, <<>>)

route_validateBodyFirst(def, request) ==
  LET bodySchema == def.bodySchema
      querySchema == def.querySchema
  IN IF IsDefined(bodySchema) /\ ~safeParse(ValueOf(bodySchema), request.body).success
       THEN [failed |-> TRUE,
             body |-> errorResponse(safeParse(ValueOf(bodySchema), request.body).error),
             evaluated |-> <<"body">>]
     ELSE IF IsDefined(querySchema) /\ ~safeParse(ValueOf(querySchema), request.query).success
       THEN [failed |-> TRUE,
             body |-> errorResponse(safeParse(ValueOf(querySchema), request.query).error),
             evaluated |-> (IF IsDefined(bodySchema) THEN <<"body">> ELSE <<>>) \o <<"query">>]
     ELSE [failed |-> FALSE, body |-> <<>>,
           evaluated |-> (IF IsDefined(bodySchema) THEN <<"body">> ELSE <<>>)
                         \o (IF IsDefined(querySchema) THEN <<"query">> ELSE <<>>)]

\* route.ts's validateEndpointSchemaForRequest(endpointDef, req): if (querySchema) ... return
\* errorResponse(...); if (bodySchema) ... return errorResponse(...)
route_validateEndpointSchemaForRequest(def, request) ==
  LET querySchema == def.querySchema
      bodySchema == def.bodySchema
      queried == IF IsDefined(querySchema) THEN <<"query">> ELSE <<>>
  IN IF IsDefined(querySchema) /\ ~safeParse(ValueOf(querySchema), request.query).success
       THEN [failed |-> TRUE,
             body |-> errorResponse(safeParse(ValueOf(querySchema), request.query).error),
             evaluated |-> queried]
     ELSE IF IsDefined(bodySchema) /\ ~safeParse(ValueOf(bodySchema), request.body).success
       THEN [failed |-> TRUE,
             body |-> errorResponse(safeParse(ValueOf(bodySchema), request.body).error),
             evaluated |-> queried \o <<"body">>]
     ELSE [failed |-> FALSE, body |-> <<>>,
           evaluated |-> queried \o (IF IsDefined(bodySchema) THEN <<"body">> ELSE <<>>)]

\* route.ts's setResponseHeaders
RECURSIVE route_setResponseHeaders(_, _)
route_setResponseHeaders(rs, headers) ==
  IF ~IsDefined(headers) \/ Len(ValueOf(headers)) = 0 THEN rs
  ELSE route_setResponseHeaders(
         resSetHeader(rs, ValueOf(headers)[1][1], ValueOf(headers)[1][2]),
         Some(Tail(ValueOf(headers))))

\* { ...context, query: req.query, body: req.body }
route_handlerContext(r, request) ==
  Merge(createRouteContext([req |-> ReqHandle(r), res |-> ResHandle(r)]),
        [query |-> Payload(request.query), body |-> Payload(request.body)])

\* if (redirect) res.redirect(status || 307, redirect)
\* else res.status(status || 200).send(body)
route_emit(rs, handlerResult) ==
  IF TruthyString(handlerResult.redirect)
    THEN resRedirect(rs, OrDefault(handlerResult.status, 307), ValueOf(handlerResult.redirect))
    ELSE resSend(resStatus(rs, OrDefault(handlerResult.status, 200)), handlerResult.body)

\* route(endpoints), called with the list asHandler is called with
Route ==
  /\ routed.ctor = "pending"
  /\ Len(endpoints) = Len(declared)
  /\ LET index == route_reduceEndpoints(EmptyIndex, endpoints)
     IN routed' =
          IF index.threw
            THEN [ctor |-> "threw", error |-> index.error,
                  methodEndpoints |-> <<>>, handler |-> <<>>]
            ELSE [ctor |-> "returned", error |-> Undefined,
                  methodEndpoints |-> index.map, handler |-> routeHandler(outerHandler)]
  /\ UNCHANGED <<declared, endpoints, decorators, ctor, ctorError, methodEndpoints,
                 handlerChain, pc, req, res, depth, endpointDef, endpointContext,
                 result, exc, trace, raised, running>>

\* The host calls route's handler with the request asHandler's handler got.
RouteInvoke(r) ==
  /\ routed.ctor = "returned"
  /\ running = 0
  /\ pc[r] = "idle"
  /\ pc[AsHandlerRequest] # "idle"
  /\ \E m \in RequestMethods, q \in QueryInputs, b \in BodyInputs :
       /\ [method |-> m, query |-> q, body |-> b] = req[AsHandlerRequest]
       /\ req' = [req EXCEPT ![r] = [method |-> m, query |-> q, body |-> b]]
  /\ pc' = [pc EXCEPT ![r] = IF Len(routed.handler) = 0 THEN "resolve" ELSE "decorator"]
  /\ running' = r
  /\ UNCHANGED <<ctorVars, res, depth, reqLocals, exc, trace, raised>>

\* const endpointDef = methodEndpoints[method]; if (!endpointDef) 404
RouteResolve(r) ==
  /\ running = r
  /\ pc[r] = "resolve"
  /\ LET def == GetProperty(routed.methodEndpoints, MethodKey(req[r]))
         lookup == Ev("lookup", "route", 0, MethodKey(req[r]))
         after == resEnd(resStatus(res[r], 404), Undefined)
     IN IF ~IsDefined(def)
          THEN /\ res' = [res EXCEPT ![r] = after]
               /\ Log(r, <<lookup>> \o NewCalls(res[r], after, "route"))
               /\ pc' = [pc EXCEPT ![r] = "unwind"]
               /\ running' = 0
               /\ UNCHANGED endpointDef
          ELSE /\ endpointDef' = [endpointDef EXCEPT ![r] = def]
               /\ Log(r, <<lookup>>)
               /\ pc' = [pc EXCEPT ![r] = "validate"]
               /\ UNCHANGED <<res, running>>
  /\ UNCHANGED <<ctorVars, req, depth, endpointContext, result, exc, raised>>

\* validateEndpointSchemaForRequest(endpointDef, req); if (errors) 400
RouteValidate(r) ==
  /\ running = r
  /\ pc[r] = "validate"
  /\ LET def == ValueOf(endpointDef[r])
         v == route_validateEndpointSchemaForRequest(def, req[r])
         parses == [i \in 1..Len(v.evaluated) |->
                      Ev("safeParse", "route", EndpointId(def), <<v.evaluated[i]>>)]
         after == resEnd(resStatus(res[r], 400), Some(v.body))
     IN IF v.failed
          THEN /\ res' = [res EXCEPT ![r] = after]
               /\ Log(r, parses \o NewCalls(res[r], after, "route"))
               /\ pc' = [pc EXCEPT ![r] = "unwind"]
               /\ running' = 0
          ELSE /\ Log(r, parses)
               /\ pc' = [pc EXCEPT ![r] = "call_handler"]
               /\ UNCHANGED <<res, running>>
  /\ UNCHANGED <<ctorVars, req, depth, reqLocals, exc, raised>>

\* await handler({ ...context, query: req.query, body: req.body })
RouteCallHandler(r) ==
  /\ running = r
  /\ pc[r] = "call_handler"
  /\ LET def == ValueOf(endpointDef[r])
     IN IF IsDefined(def.handler)
          THEN /\ Log(r, <<Ev("handler_call", "route", ValueOf(def.handler),
                              route_handlerContext(r, req[r]))>>)
               /\ pc' = [pc EXCEPT ![r] = "await_handler"]
               /\ running' = 0
               /\ UNCHANGED exc
          ELSE /\ exc' = [exc EXCEPT ![r] = Some(NotAFunction)]
               /\ pc' = [pc EXCEPT ![r] = "catch"]
               /\ UNCHANGED <<trace, running>>
  /\ UNCHANGED <<ctorVars, req, res, depth, reqLocals, raised>>

\* The endpoint handler settles as it did for the same request under
\* asHandler's handler: with the same result or by throwing.
RouteHandlerSettle(r) ==
  /\ running = 0
  /\ pc[r] = "await_handler"
  /\ \/ /\ IsDefined(result[AsHandlerRequest])
        /\ \E hr \in HandlerResults :
             /\ Some(hr) = result[AsHandlerRequest]
             /\ result' = [result EXCEPT ![r] = Some(hr)]
        /\ pc' = [pc EXCEPT ![r] = "headers"]
        /\ UNCHANGED <<exc, trace>>
     \/ /\ \E i \in 1..Len(trace[AsHandlerRequest]) :
             trace[AsHandlerRequest][i].ev = "handler_throw"
        /\ exc' = [exc EXCEPT ![r] = Some(HandlerError)]
        /\ Log(r, <<Ev("handler_throw", "handler", 0, Some(HandlerError))>>)
        /\ pc' = [pc EXCEPT ![r] = "catch"]
        /\ UNCHANGED result
  /\ running' = r
  /\ UNCHANGED <<ctorVars, req, res, depth, endpointDef, endpointContext, raised>>

\* setResponseHeaders(res, headers)
RouteSetHeaders(r) ==
  /\ running = r
  /\ pc[r] = "headers"
  /\ LET after == route_setResponseHeaders(res[r], ValueOf(result[r]).headers)
     IN /\ res' = [res EXCEPT ![r] = after]
        /\ Log(r, NewCalls(res[r], after, "route"))
  /\ pc' = [pc EXCEPT ![r] = "emit"]
  /\ UNCHANGED <<ctorVars, req, depth, reqLocals, exc, raised, running>>

RouteEmit(r) ==
  /\ running = r
  /\ pc[r] = "emit"
  /\ LET after == route_emit(res[r], ValueOf(result[r]))
     IN /\ res' = [res EXCEPT ![r] = after]
        /\ Log(r, NewCalls(res[r], after, "route"))
  /\ pc' = [pc EXCEPT ![r] = "unwind"]
  /\ running' = 0
  /\ UNCHANGED <<ctorVars, req, depth, reqLocals, exc, raised>>

\* catch (error) { res.status(500).end(); ...
RouteCatch(r) ==
  /\ running = r
  /\ pc[r] = "catch"
  /\ LET after == resEnd(resStatus(res[r], 500), Undefined)
     IN /\ res' = [res EXCEPT ![r] = after]
        /\ Log(r, NewCalls(res[r], after, "route"))
  /\ pc' = [pc EXCEPT ![r] = "rethrow"]
  /\ UNCHANGED <<ctorVars, req, depth, reqLocals, exc, raised, running>>

\* ... throw error; }
RouteRethrow(r) ==
  /\ running = r
  /\ pc[r] = "rethrow"
  /\ Log(r, <<Ev("throw", "route", 0, exc[r])>>)
  /\ pc' = [pc EXCEPT ![r] = "unwind"]
  /\ running' = 0
  /\ UNCHANGED <<ctorVars, req, res, depth, reqLocals, exc, raised>>

\* -------------------------------------------------------- specifications

DeclaredMethods == {m_get, m_GET, m_post}

OptionalSchema(schema) == {Undefined, Some(schema)}

\* The options of the endpoint declared in position i of the list.  The
\* first endpoint takes every combination of options; a later one declares
\* none of them or all of them.
OptionsAt(i) ==
  IF i = 1
    THEN {EndpointOptions(m, q, b, rs, c) :
            m \in DeclaredMethods, q \in OptionalSchema(QuerySchema),
            b \in OptionalSchema(BodySchema), rs \in OptionalSchema(ResponseSchema),
            c \in {Undefined, Some(i)}}
    ELSE {EndpointOptions(m, Undefined, Undefined, Undefined, Undefined) :
            m \in DeclaredMethods}
         \cup {EndpointOptions(m, Some(QuerySchema), Some(BodySchema),
                               Some(ResponseSchema), Some(i)) :
                 m \in DeclaredMethods}

OptionLists ==
  UNION {{s \in [1..n -> UNION {OptionsAt(i) : i \in 1..n}] :
            \A i \in 1..n : s[i] \in OptionsAt(i)} : n \in 0..MaxEndpoints}

InitRequests ==
  /\ endpoints = <<>>
  /\ ctor = "pending"
  /\ ctorError = Undefined
  /\ methodEndpoints = <<>>
  /\ handlerChain = <<>>
  /\ pc = [r \in ReqIds |-> "idle"]
  /\ req = [r \in ReqIds |-> NoRequest]
  /\ res = [r \in ReqIds |-> NewResponse]
  /\ depth = [r \in ReqIds |-> 0]
  /\ endpointDef = [r \in ReqIds |-> Undefined]
  /\ endpointContext = [r \in ReqIds |-> <<>>]
  /\ result = [r \in ReqIds |-> Undefined]
  /\ exc = [r \in ReqIds |-> Undefined]
  /\ trace = [r \in ReqIds |-> <<>>]
  /\ raised = [r \in ReqIds |-> Undefined]
  /\ running = 0
  /\ routed = NotRouted

Init ==
  /\ declared \in OptionLists
  /\ decorators = <<>>
  /\ InitRequests

Core(r) ==
  \/ CoreResolve(r)
  \/ CoreValidate(r)
  \/ CoreContext(r)
  \/ ContextSettle(r)
  \/ CoreCallHandler(r)
  \/ HandlerSettle(r)
  \/ CoreValidateResponse(r)
  \/ CoreSetHeaders(r)
  \/ CoreEmit(r)
  \/ CoreCatch(r)
  \/ CoreRethrow(r)

\* One request to a handler built without decorators.
Next ==
  \/ Declare
  \/ AsHandler
  \/ Invoke(1)
  \/ Core(1)
  \/ Settle(1)

Spec == Init /\ [][Next]_vars

\* Construction alone, over every enumerated method and two spellings that
\* differ from one only in case.
CtorMethods == HttpMethod \cup {m_GET, m_Post}

PlainOptions ==
  {EndpointOptions(m, Undefined, Undefined, Undefined, Undefined) : m \in CtorMethods}

PlainOptionLists == UNION {[1..n -> PlainOptions] : n \in 0..MaxEndpoints}

InitCtor ==
  /\ declared \in PlainOptionLists
  /\ decorators = <<>>
  /\ InitRequests

NextCtor ==
  \/ Declare
  \/ AsHandler
  \/ Invoke(1)

SpecCtor == InitCtor /\ [][NextCtor]_vars

\* One request to a handler built with decorators around one endpoint that
\* declares every option.
DecoratorChoices ==
  {Decorator("A", "wrap"), Decorator("B", "wrap"), Decorator("S", "short"),
   Decorator("T", "throw")}

DecoratorLists == UNION {[1..n -> DecoratorChoices] : n \in 0..MaxDecorators}

FullOptions ==
  EndpointOptions(m_get, Some(QuerySchema), Some(BodySchema), Some(ResponseSchema),
                  Some(1))

InitDecorated ==
  /\ declared = <<FullOptions>>
  /\ decorators \in DecoratorLists
  /\ InitRequests

NextDecorated ==
  \/ Declare
  \/ AsHandler
  \/ Invoke(1)
  \/ DecoratorEnter(1)
  \/ Core(1)
  \/ DecoratorLeave(1)
  \/ Settle(1)

SpecDecorated == InitDecorated /\ [][NextDecorated]_vars

\* One request to a handler built without decorators, on a response object
\* whose methods may reject what the handler result makes the core pass them.
\* Every endpoint declares none of the options or all of them.
FaultyOptionsAt(i) ==
  {EndpointOptions(m, Undefined, Undefined, Undefined, Undefined) :
     m \in DeclaredMethods}
  \cup {EndpointOptions(m, Some(QuerySchema), Some(BodySchema),
                        Some(ResponseSchema), Some(i)) : m \in DeclaredMethods}

FaultyOptionLists ==
  UNION {{s \in [1..n -> UNION {FaultyOptionsAt(i) : i \in 1..n}] :
            \A i \in 1..n : s[i] \in FaultyOptionsAt(i)} : n \in 0..MaxEndpoints}

InitFaulty ==
  /\ declared \in FaultyOptionLists
  /\ decorators = <<>>
  /\ InitRequests

NextFaulty ==
  \/ Next
  \/ CoreSetHeadersThrows(1)
  \/ CoreEmitThrows(1)

SpecFaulty == InitFaulty /\ [][NextFaulty]_vars

\* Several requests in flight on one handler built without decorators: a
\* get endpoint declaring every option and a post endpoint declaring none.
\* The requests, the context builder's values and the handler's results are
\* drawn from the small sets below.
ConcurrentRequests ==
  [method : {Some(m_GET), Some(m_post), Some(m_PURGE)},
   query : {<<>>, <<"id">>},
   body : {<<"name">>}]

ConcurrentResults ==
  {[status |-> Some(201), redirect |-> Undefined, body |-> Some(<<"product">>),
    headers |-> Some(ResultHeaders)],
   [status |-> Undefined, redirect |-> Some(<<"/login">>), body |-> Undefined,
    headers |-> Undefined],
   [status |-> Undefined, redirect |-> Undefined, body |-> Some(<<"oops">>),
    headers |-> Undefined]}

ConcurrentInputs ==
  \A r \in ReqIds :
    /\ req[r] \in ConcurrentRequests \cup {NoRequest}
    /\ result[r] \in {Undefined} \cup {Some(hr) : hr \in ConcurrentResults}

InitConcurrent ==
  /\ declared = <<FullOptions,
                  EndpointOptions(m_post, Undefined, Undefined, Undefined, Undefined)>>
  /\ decorators = <<>>
  /\ InitRequests

NextConcurrent ==
  /\ \/ Declare
     \/ AsHandler
     \/ \E r \in ReqIds : Invoke(r)
     \/ \E r \in ReqIds : Core(r)
     \/ \E r \in ReqIds : Settle(r)
  /\ ConcurrentInputs'

SpecConcurrent == InitConcurrent /\ [][NextConcurrent]_vars

\* The same endpoint list given to asHandler (no decorators) and to the
\* older route(), and one request served by each of the two handlers.
RouteOptionsAt(i) ==
  IF i = 1
    THEN {EndpointOptions(m, q, b, x[1], x[2]) :
            m \in DeclaredMethods, q \in OptionalSchema(QuerySchema),
            b \in OptionalSchema(BodySchema),
            x \in {<<Undefined, Undefined>>, <<Some(ResponseSchema), Some(i)>>}}
    ELSE {EndpointOptions(m, x[1], x[2], Undefined, Undefined) :
            m \in DeclaredMethods,
            x \in {<<Undefined, Undefined>>, <<Some(QuerySchema), Some(BodySchema)>>}}

RouteOptionLists ==
  UNION {{s \in [1..n -> UNION {RouteOptionsAt(i) : i \in 1..n}] :
            \A i \in 1..n : s[i] \in RouteOptionsAt(i)} : n \in 0..MaxEndpoints}

InitRoute ==
  /\ declared \in RouteOptionLists
  /\ decorators = <<>>
  /\ InitRequests

RouteCore(r) ==
  \/ RouteResolve(r)
  \/ RouteValidate(r)
  \/ RouteCallHandler(r)
  \/ RouteHandlerSettle(r)
  \/ RouteSetHeaders(r)
  \/ RouteEmit(r)
  \/ RouteCatch(r)
  \/ RouteRethrow(r)

NextRoute ==
  \/ Declare
  \/ AsHandler
  \/ Route
  \/ Invoke(AsHandlerRequest)
  \/ Core(AsHandlerRequest)
  \/ Settle(AsHandlerRequest)
  \/ RouteInvoke(RouteRequest)
  \/ RouteCore(RouteRequest)
  \/ Settle(RouteRequest)

SpecRoute == InitRoute /\ [][NextRoute]_vars

\* The steps of outerHandler that are the code's own: once enabled, the
\* event loop runs them.  Whether and when the context builder and the
\* endpoint handler settle is up to them.
CoreStep(r) ==
  \/ CoreResolve(r)
  \/ CoreValidate(r)
  \/ CoreContext(r)
  \/ CoreCallHandler(r)
  \/ CoreValidateResponse(r)
  \/ CoreSetHeaders(r)
  \/ CoreEmit(r)
  \/ CoreCatch(r)
  \/ CoreRethrow(r)

InitLive ==
  /\ declared \in {<<FullOptions>>,
                   <<EndpointOptions(m_get, Undefined, Undefined, Undefined, Undefined)>>}
  /\ decorators = <<>>
  /\ InitRequests

\* One request, no decorators, with the event loop's progress guarantee.
SpecLive == InitLive /\ [][Next]_vars /\ WF_vars(CoreStep(1))

\* ------------------------------------------------- vocabulary of the claims

SameLetter(a, b) ==
  \/ a = b
  \/ \E k \in 1..Len(UpperCaseLetters) :
       {a, b} = {UpperCaseLetters[k], LowerCaseLetters[k]}

\* Two method strings are equal up to the case of their letters.
SameMethod(a, b) ==
  /\ Len(a) = Len(b)
  /\ \A i \in 1..Len(a) : SameLetter(a[i], b[i])

IsLowerCase(s) ==
  \A i \in 1..Len(s) : \A k \in 1..Len(UpperCaseLetters) : s[i] # UpperCaseLetters[k]

\* Endpoint j of the list has the method of an earlier one.
Collides(es, j) == \E i \in 1..(j - 1) : SameMethod(es[i].method, es[j].method)

HasCollision(es) == \E j \in 1..Len(es) : Collides(es, j)

AllEnumerated(es) ==
  \A i \in 1..Len(es) : \E m \in HttpMethod : SameMethod(es[i].method, m)

\* Some endpoint given to asHandler has the request's method.
Registered(request) ==
  /\ IsDefined(request.method)
  /\ \E i \in 1..Len(endpoints) :
       SameMethod(endpoints[i].method, ValueOf(request.method))

Rejects(schema, input) ==
  IsDefined(schema) /\ ~safeParse(ValueOf(schema), input).success

Happened(r, evs) == \E i \in 1..Len(trace[r]) : trace[r][i].ev \in evs

\* Position of the first call of the trace among evs (0 if there is none).
FirstAt(r, evs) ==
  IF Happened(r, evs)
    THEN CHOOSE i \in 1..Len(trace[r]) :
           /\ trace[r][i].ev \in evs
           /\ \A j \in 1..(i - 1) : trace[r][j].ev \notin evs
    ELSE 0

\* Validation of request r has run.
Validated(r) ==
  /\ IsDefined(endpointDef[r])
  /\ pc[r] \notin {"idle", "decorator", "resolve", "validate"}

\* The core pipeline reached response emission for request r.
Emitted(r) ==
  \E i \in 1..Len(trace[r]) :
    trace[r][i].ev \in {"send", "redirect"} /\ trace[r][i].by = "core"

Answered(r, code) ==
  /\ res[r].finished
  /\ res[r].statusCode = code

EmptyBody(r) == ~IsDefined(res[r].body)

\* ------------------------------------------------------------------ claims

\* C1: asHandler returns a handler for every list of endpoints whose
\* methods (among the eight enumerated ones, in any case) are pairwise
\* distinct after lower-casing; for a list in which two endpoints share a
\* method after lower-casing it throws, the error names the duplicated
\* lower-cased method, no handler is returned and no request is served.
Cl_C1 ==
  (ctor # "pending" /\ AllEnumerated(endpoints)) =>
    IF HasCollision(endpoints)
      THEN /\ ctor = "threw"
           /\ IsDefined(ctorError)
           /\ ValueOf(ctorError).message[1] = "Duplicate endpoint definition for "
           /\ LET named == Tail(ValueOf(ctorError).message)
              IN /\ IsLowerCase(named)
                 /\ \E j \in 1..Len(endpoints) :
                      Collides(endpoints, j) /\ SameMethod(named, endpoints[j].method)
           /\ \A r \in ReqIds :
                pc[r] = "idle" /\ trace[r] = <<>> /\ ~res[r].finished
      ELSE ctor = "returned" /\ ~IsDefined(ctorError)

Wit_C1 ==
  /\ ctor = "threw"
  /\ Len(endpoints) = 2
  /\ endpoints[1].method = m_get
  /\ endpoints[2].method = m_GET

\* C2 (as stated): a finished request whose method no endpoint has was
\* answered 404 with an empty body, nothing of any endpoint was invoked and
\* nothing was raised.
Cx_C2 ==
  \A r \in ReqIds :
    (pc[r] = "done" /\ ~Registered(req[r])) =>
      /\ Answered(r, 404)
      /\ EmptyBody(r)
      /\ ~Happened(r, {"safeParse", "context_call", "handler_call"})
      /\ ~IsDefined(raised[r])

\* C3: when the endpoint's querySchema rejects the query, the response is
\* 400 with the serialized {errors: <query schema's errors>} and nothing
\* else, and the bodySchema is never evaluated.
Cl_C3 ==
  \A r \in ReqIds :
    (Validated(r) /\ Rejects(ValueOf(endpointDef[r]).querySchema, req[r].query)) =>
      /\ Answered(r, 400)
      /\ res[r].body =
           Some(errorResponse(
             [errors |-> ZodIssues(ValueOf(ValueOf(endpointDef[r]).querySchema),
                                   req[r].query)]))
      /\ "id" \in KeysOf(ValueOf(res[r].body))
      /\ "name" \notin KeysOf(ValueOf(res[r].body))
      /\ \A i \in 1..Len(trace[r]) :
           trace[r][i].ev = "safeParse" => trace[r][i].arg = <<"query">>

Wit_C3 ==
  /\ pc[1] = "done"
  /\ IsDefined(endpointDef[1])
  /\ Rejects(ValueOf(endpointDef[1]).querySchema, req[1].query)
  /\ Rejects(ValueOf(endpointDef[1]).bodySchema, req[1].body)
  /\ Answered(1, 400)

\* C4: when the endpoint's bodySchema rejects the body and its querySchema
\* is absent or accepts the query, the response is 400 with the serialized
\* {errors: <body schema's errors>} only.
Cl_C4 ==
  \A r \in ReqIds :
    (/\ Validated(r)
     /\ ~Rejects(ValueOf(endpointDef[r]).querySchema, req[r].query)
     /\ Rejects(ValueOf(endpointDef[r]).bodySchema, req[r].body)) =>
      /\ Answered(r, 400)
      /\ res[r].body =
           Some(errorResponse(
             [errors |-> ZodIssues(ValueOf(ValueOf(endpointDef[r]).bodySchema),
                                   req[r].body)]))
      /\ "id" \notin KeysOf(ValueOf(res[r].body))
      /\ KeysOf(ValueOf(res[r].body)) \cap {"name", "junk"} # {}

Wit_C4 ==
  /\ pc[1] = "done"
  /\ IsDefined(endpointDef[1])
  /\ IsDefined(ValueOf(endpointDef[1]).querySchema)
  /\ ~Rejects(ValueOf(endpointDef[1]).querySchema, req[1].query)
  /\ Rejects(ValueOf(endpointDef[1]).bodySchema, req[1].body)
  /\ Answered(1, 400)

ValidationFails(r) ==
  /\ IsDefined(endpointDef[r])
  /\ \/ Rejects(ValueOf(endpointDef[r]).querySchema, req[r].query)
     \/ Rejects(ValueOf(endpointDef[r]).bodySchema, req[r].body)

\* C5: when query or body validation fails, the request ends with the 400:
\* the context builder and the handler are never invoked, no header is set,
\* and the returned handler completes without raising.
Cl_C5 ==
  \A r \in ReqIds :
    ValidationFails(r) =>
      /\ pc[r] \in {"validate", "unwind", "done"}
      /\ ~Happened(r, {"context_call", "handler_call", "setHeader"})
      /\ DOMAIN res[r].headers = {}
      /\ ~IsDefined(exc[r])
      /\ ~IsDefined(raised[r])
      /\ pc[r] = "done" => Answered(r, 400)

Wit_C5 ==
  /\ pc[1] = "done"
  /\ ValidationFails(1)
  /\ IsDefined(ValueOf(endpointDef[1]).context)
  /\ Answered(1, 400)

\* C6: when the endpoint handler throws, the response is 500 with an empty
\* body and the same error is raised out of the returned handler, after the
\* 500 has been emitted.
Cl_C6 ==
  \A r \in ReqIds :
    Happened(r, {"handler_throw"}) =>
      /\ pc[r] \in {"rethrow", "unwind", "done"} => Answered(r, 500) /\ EmptyBody(r)
      /\ IsDefined(raised[r]) => Answered(r, 500)
      /\ pc[r] = "done" =>
           /\ raised[r] = trace[r][FirstAt(r, {"handler_throw"})].arg
           /\ IsDefined(raised[r])
           /\ FirstAt(r, {"end"}) > 0
           /\ FirstAt(r, {"end"}) < FirstAt(r, {"throw"})

Wit_C6 ==
  /\ pc[1] = "done"
  /\ Happened(1, {"handler_throw"})
  /\ raised[1] = Some(HandlerError)

\* The endpoint's responseSchema rejects the body the handler returned.
ResultRejected(r) ==
  /\ IsDefined(endpointDef[r])
  /\ IsDefined(result[r])
  /\ IsDefined(ValueOf(result[r]).body)
  /\ Rejects(ValueOf(endpointDef[r]).responseSchema, ValueOf(ValueOf(result[r]).body))

\* C7: when the handler returns a body that the endpoint's responseSchema
\* rejects, the request ends with 500 and an empty body (never 400), the
\* handler's body is never sent, and the schema's validation error is raised
\* out of the returned handler after the 500 is emitted.
Cl_C7 ==
  \A r \in ReqIds :
    ResultRejected(r) =>
      /\ ~Happened(r, {"send", "redirect"})
      /\ res[r].statusCode # 400
      /\ pc[r] \in {"validate_response", "catch", "rethrow", "unwind", "done"}
      /\ pc[r] \in {"rethrow", "unwind", "done"} => Answered(r, 500) /\ EmptyBody(r)
      /\ IsDefined(raised[r]) => Answered(r, 500)
      /\ pc[r] = "done" =>
           /\ raised[r] =
                Some(ZodError(
                  [errors |-> ZodIssues(ValueOf(ValueOf(endpointDef[r]).responseSchema),
                                        ValueOf(ValueOf(result[r]).body))]))
           /\ ValueOf(raised[r]).name = "ZodError"
           /\ FirstAt(r, {"end"}) > 0
           /\ FirstAt(r, {"end"}) < FirstAt(r, {"throw"})

Wit_C7 ==
  /\ pc[1] = "done"
  /\ ResultRejected(1)
  /\ Answered(1, 500)
  /\ IsDefined(raised[1])

\* C8 (as stated): the emitted status is the result's status whenever one
\* is given, whatever its numeric value, and otherwise 307 with a redirect
\* and 200 without.
Cx_C8 ==
  \A r \in ReqIds :
    Emitted(r) =>
      LET hr == ValueOf(result[r])
      IN res[r].statusCode =
           IF IsDefined(hr.status) THEN ValueOf(hr.status)
           ELSE IF IsDefined(hr.redirect) THEN 307 ELSE 200

\* C8 (amended): the emitted status is the result's status whenever a
\* non-zero status is given; a status of 0 counts as not given, and then,
\* as when no status is given, the status is 307 with a redirect and 200
\* without.
Cl_C8 ==
  \A r \in ReqIds :
    Emitted(r) =>
      LET hr == ValueOf(result[r])
      IN res[r].statusCode =
           IF IsDefined(hr.status) /\ ValueOf(hr.status) # 0 THEN ValueOf(hr.status)
           ELSE IF IsDefined(hr.redirect) THEN 307 ELSE 200

Wit_C8 ==
  /\ Emitted(1)
  /\ ValueOf(result[1]).status = Some(0)
  /\ IsDefined(ValueOf(result[1]).redirect)
  /\ res[1].statusCode = 307

\* C9: for a request that reaches response emission, every header of the
\* handler result is set on the response, unchanged, before the status, the
\* body or the redirect is written, with a redirect as with a body.
Cl_C9 ==
  \A r \in ReqIds :
    (Emitted(r) /\ IsDefined(ValueOf(result[r]).headers)) =>
      LET hs == ValueOf(ValueOf(result[r]).headers)
          calls == res[r].calls
      IN \A k \in 1..Len(hs) :
           /\ hs[k][1] \in DOMAIN res[r].headers
           /\ res[r].headers[hs[k][1]] = hs[k][2]
           /\ \E i \in 1..Len(calls) :
                /\ calls[i].ev = "setHeader"
                /\ calls[i].arg = hs[k]
                /\ \A j \in 1..Len(calls) :
                     calls[j].ev \in {"status", "send", "redirect", "end"} => i < j

Wit_C9 ==
  /\ pc[1] = "done"
  /\ Emitted(1)
  /\ IsDefined(ValueOf(result[1]).redirect)
  /\ ValueOf(result[1]).headers = Some(ResultHeaders)
  /\ DOMAIN res[1].headers = {"x-a", "x-b"}

AllWrap == \A i \in 1..Len(decorators) : decorators[i].kind = "wrap"

Reverse(s) == [i \in 1..Len(s) |-> s[Len(s) + 1 - i]]

\* What the decorators and the core pipeline (its first step) did, in order.
Layers(r) ==
  SelectSeq(trace[r],
            LAMBDA e : e.ev \in {"decorator_pre", "lookup", "decorator_post",
                                 "decorator_rejected"})

\* C10: for decorators [d1..dn] the composed handler is dn(...d2(d1(H))):
\* a request runs the pre-logic of dn down to d1, then the core pipeline H,
\* then the post-logic of d1 up to dn (for [A, B]: B, A, H, A, B).
Cl_C10 ==
  /\ ctor = "returned" => handlerChain = Reverse(decorators)
  /\ \A r \in ReqIds :
       (pc[r] = "done" /\ AllWrap) =>
         LET n == Len(decorators)
             ls == Layers(r)
         IN /\ Len(ls) = 2 * n + 1
            /\ \A i \in 1..n :
                 /\ ls[i].ev = "decorator_pre"
                 /\ ls[i].by = decorators[n + 1 - i].name
            /\ ls[n + 1].ev = "lookup"
            /\ \A i \in 1..n :
                 /\ ls[n + 1 + i].ev =
                      IF IsDefined(raised[r]) THEN "decorator_rejected" ELSE "decorator_post"
                 /\ ls[n + 1 + i].by = decorators[i].name

Wit_C10 ==
  /\ pc[1] = "done"
  /\ decorators = <<Decorator("A", "wrap"), Decorator("B", "wrap")>>
  /\ Emitted(1)
  /\ Len(Layers(1)) = 5
  /\ Layers(1)[1].by = "B"
  /\ Layers(1)[2].by = "A"
  /\ Layers(1)[4].by = "A"
  /\ Layers(1)[5].by = "B"

\* Position in the trace of the pre-logic of the decorator called name (0 if
\* it has not run).
PreAt(r, name) ==
  IF \E i \in 1..Len(trace[r]) :
       trace[r][i].ev = "decorator_pre" /\ trace[r][i].by = name
    THEN CHOOSE i \in 1..Len(trace[r]) :
           trace[r][i].ev = "decorator_pre" /\ trace[r][i].by = name
    ELSE 0

\* C11 (as stated): for decorators [d1, d2], on a request on which both
\* run, d1's logic runs before d2's logic.
Cx_C11 ==
  \A r \in ReqIds :
    (/\ Len(decorators) = 2
     /\ decorators[1].name # decorators[2].name
     /\ PreAt(r, decorators[1].name) > 0
     /\ PreAt(r, decorators[2].name) > 0) =>
      PreAt(r, decorators[1].name) < PreAt(r, decorators[2].name)

\* The endpoint handler of request r has been called.
HandlerCalled(r) == Happened(r, {"handler_call"})

\* The context it was called with.
HandlerCtx(r) == trace[r][FirstAt(r, {"handler_call"})].arg

\* The context builder of r's endpoint ran and settled with an object.
BuilderReturned(r) ==
  /\ HandlerCalled(r)
  /\ IsDefined(ValueOf(endpointDef[r]).context)

Cx_C14 ==
  \A r \in ReqIds :
    HandlerCalled(r) =>
      LET def == ValueOf(endpointDef[r])
      IN /\ IsDefined(def.querySchema) =>
              HandlerCtx(r).query =
                Payload(safeParse(ValueOf(def.querySchema), req[r].query).data)
         /\ IsDefined(def.bodySchema) =>
              HandlerCtx(r).body =
                Payload(safeParse(ValueOf(def.bodySchema), req[r].body).data)

\* The calls on r's response that emit an outcome.
OutcomeCalls(r) ==
  SelectSeq(res[r].calls, LAMBDA c : c.ev \in {"end", "send", "redirect"})

\* The pipeline of request r has finished.
Finished(r) == pc[r] \in {"unwind", "done"}

\* C15: every request handled by the core pipeline emits exactly one of
\* 404, 400, 500, redirect and body, also when header application or
\* emission raises: never two, and never none once the pipeline has finished.
Cl_C15 ==
  \A r \in ReqIds :
    /\ Len(OutcomeCalls(r)) <= 1
    /\ Finished(r) =>
         /\ Len(OutcomeCalls(r)) = 1
         /\ res[r].finished
         /\ OutcomeCalls(r)[1].ev = "end" => res[r].statusCode \in {404, 400, 500}
         /\ IsDefined(exc[r]) <=> (OutcomeCalls(r)[1].ev = "end" /\ res[r].statusCode = 500)

Wit_C15 ==
  /\ pc[1] = "done"
  /\ raised[1] = Some(ResponseError)
  /\ Len(OutcomeCalls(1)) = 1
  /\ Answered(1, 500)
  /\ \E i \in 1..Len(res[1].calls) :
       res[1].calls[i].ev = "status" /\ res[1].calls[i].arg = <<201>>
  /\ DOMAIN res[1].headers = {"x-a", "x-b"}

\* The handler of request r resolved with a result that sets redirect.
RedirectResult(r) ==
  /\ IsDefined(result[r])
  /\ IsDefined(ValueOf(result[r]).redirect)

\* The response schema of r's endpoint was run.
ResponseParsed(r) ==
  \E i \in 1..Len(trace[r]) :
    trace[r][i].ev = "safeParse" /\ trace[r][i].arg = <<"response">>

\* C16 (as stated): when the handler result sets redirect, a redirect to
\* that target is issued and the body is neither sent nor validated, whatever
\* the body and also when the endpoint declares a responseSchema.
Cx_C16 ==
  \A r \in ReqIds :
    (RedirectResult(r) /\ Finished(r)) =>
      /\ res[r].location = ValueOf(result[r]).redirect
      /\ ~Happened(r, {"send"})
      /\ ~ResponseParsed(r)

\* C16 (amended): when the handler result sets redirect, the body is never
\* sent, but it is validated when it is present and the endpoint declares a
\* responseSchema: if the schema rejects it, no redirect is issued and the
\* request ends with 500 and the validation error raised; otherwise a
\* redirect to the target is issued.
Cl_C16 ==
  \A r \in ReqIds :
    (RedirectResult(r) /\ Finished(r)) =>
      /\ ~Happened(r, {"send"})
      /\ ResponseParsed(r) <=>
           (/\ IsDefined(ValueOf(result[r]).body)
            /\ IsDefined(ValueOf(endpointDef[r]).responseSchema))
      /\ IF ResultRejected(r)
           THEN /\ ~Happened(r, {"redirect"})
                /\ ~IsDefined(res[r].location)
                /\ Answered(r, 500)
                /\ IsDefined(exc[r])
                /\ ValueOf(exc[r]).name = "ZodError"
           ELSE /\ res[r].location = ValueOf(result[r]).redirect
                /\ Len(OutcomeCalls(r)) = 1
                /\ OutcomeCalls(r)[1].ev = "redirect"
                /\ ~IsDefined(exc[r])

Wit_C16 ==
  /\ pc[1] = "done"
  /\ RedirectResult(1)
  /\ ResultRejected(1)
  /\ ResponseParsed(1)
  /\ Answered(1, 500)
  /\ ~IsDefined(res[1].location)

OptionNames ==
  {"method", "querySchema", "bodySchema", "responseSchema", "context"}

\* C17: endpoint(options, handler) returns a record holding every option
\* exactly as given (the method as declared, an absent schema undefined, a
\* given context builder defined) plus the handler, and while endpoints are
\* being declared no schema, context builder or handler has run.
Cl_C17 ==
  /\ Len(endpoints) <= Len(declared)
  /\ \A i \in 1..Len(endpoints) :
       /\ DOMAIN endpoints[i] = OptionNames \cup {"handler"}
       /\ \A k \in OptionNames : endpoints[i][k] = declared[i][k]
       /\ endpoints[i].handler = Some(i)
  /\ ctor = "pending" =>
       \A r \in ReqIds :
         pc[r] = "idle" /\ trace[r] = <<>> /\ res[r] = NewResponse

Wit_C17 ==
  /\ ctor = "pending"
  /\ Len(endpoints) = 2
  /\ declared[1] =
       EndpointOptions(m_GET, Undefined, Some(BodySchema), Undefined, Some(1))
  /\ endpoints[1].method = m_GET
  /\ endpoints[1].querySchema = Undefined
  /\ endpoints[1].context = Some(1)
  /\ endpoints[2].handler = Some(2)

\* The decorator pre-logic calls of request r, in order.
PreEvents(r) == SelectSeq(trace[r], LAMBDA e : e.ev = "decorator_pre")

\* The decorator in position i of the list delegates to the handler it wraps.
Delegates(i) == decorators[i].kind = "wrap"

\* The decorators a request reaches: the last of the list, and each earlier
\* one while all the later ones delegate.
Reached(i) == \A j \in (i + 1)..Len(decorators) : Delegates(j)

NumReached == Cardinality({i \in 1..Len(decorators) : Reached(i)})

\* The core pipeline ran on the request and response objects of request r.
CoreRanOn(r) ==
  /\ Happened(r, {"lookup"})
  /\ res[r].finished
  /\ \A i \in 1..Len(trace[r]) :
       trace[r][i].ev \in {"context_call", "handler_call"} =>
         (/\ trace[r][i].arg.res = ResHandle(r)
          /\ trace[r][i].ev = "context_call" => trace[r][i].arg.req = ReqHandle(r))

\* C18 (as stated): every decorator of the list runs for each invocation,
\* whatever the outcome, and receives the invocation's own request and
\* response objects.
Cx_C18 ==
  \A r \in ReqIds :
    pc[r] = "done" =>
      /\ Len(PreEvents(r)) = Len(decorators)
      /\ \A i \in 1..Len(PreEvents(r)) :
           PreEvents(r)[i].arg = <<ReqHandle(r), ResHandle(r)>>

\* C18 (amended): every decorator of the list that the request reaches (the
\* last one, and each earlier one while every later one delegates) runs
\* once for each invocation and receives that invocation's own request and
\* response objects, whatever the outcome; when all of them delegate, the
\* core pipeline runs on those same objects.
Cl_C18 ==
  \A r \in ReqIds :
    pc[r] = "done" =>
      LET n == Len(decorators)
      IN /\ Len(PreEvents(r)) = NumReached
         /\ \A i \in 1..Len(PreEvents(r)) :
              /\ PreEvents(r)[i].by = decorators[n + 1 - i].name
              /\ Reached(n + 1 - i)
              /\ PreEvents(r)[i].arg = <<ReqHandle(r), ResHandle(r)>>
         /\ (\A i \in 1..n : Delegates(i)) <=> Happened(r, {"lookup"})
         /\ Happened(r, {"lookup"}) => CoreRanOn(r)

Wit_C18 ==
  /\ pc[1] = "done"
  /\ decorators = <<Decorator("S", "short"), Decorator("A", "wrap")>>
  /\ Len(PreEvents(1)) = 2
  /\ PreEvents(1)[1].by = "A"
  /\ PreEvents(1)[2].by = "S"
  /\ ~Happened(1, {"lookup"})

\* The stage a call of the trace belongs to (0: not a stage call).
StageOf(e) ==
  CASE e.ev = "lookup" -> 1
    [] e.ev = "safeParse" ->
         (IF e.arg = <<"query">> THEN 2 ELSE IF e.arg = <<"body">> THEN 3 ELSE 7)
    [] e.ev = "context_call" -> 4
    [] e.ev = "context_return" -> 5
    [] e.ev = "handler_call" -> 6
    [] e.ev = "setHeader" -> 8
    [] e.ev \in {"status", "end", "send", "redirect"} -> 9
    [] OTHER -> 0

\* C19: within one request the stages run in the order method resolution,
\* query validation, body validation, context builder, handler, response
\* validation, header application, emission, each at most once; the context
\* builder is given the base context {req, res} only and runs only after
\* validation has passed; the handler is called only after the context
\* builder has settled.
Cl_C19 ==
  \A r \in ReqIds :
    /\ \A i, j \in 1..Len(trace[r]) :
         (i < j /\ StageOf(trace[r][i]) > 0 /\ StageOf(trace[r][j]) > 0) =>
           /\ StageOf(trace[r][i]) <= StageOf(trace[r][j])
           /\ StageOf(trace[r][i]) <= 7 => StageOf(trace[r][i]) < StageOf(trace[r][j])
    /\ \A i \in 1..Len(trace[r]) :
         trace[r][i].ev = "context_call" =>
           /\ DOMAIN trace[r][i].arg = {"req", "res"}
           /\ trace[r][i].arg.req = ReqHandle(r)
           /\ trace[r][i].arg.res = ResHandle(r)
           /\ ~ValidationFails(r)
           /\ \A k \in {"query", "body"} :
                IsDefined(ValueOf(endpointDef[r])[k \o "Schema"]) =>
                  \E j \in 1..(i - 1) :
                    trace[r][j].ev = "safeParse" /\ trace[r][j].arg = <<k>>
    /\ \A i \in 1..Len(trace[r]) :
         (trace[r][i].ev = "handler_call" /\ IsDefined(ValueOf(endpointDef[r]).context)) =>
           \E j \in 1..(i - 1) : trace[r][j].ev = "context_return"
    /\ pc[r] = "await_context" => ~Happened(r, {"handler_call"})

Wit_C19 ==
  /\ pc[1] = "done"
  /\ Emitted(1)
  /\ IsDefined(ValueOf(result[1]).headers)
  /\ {StageOf(trace[1][i]) : i \in 1..Len(trace[1])} = 1..9

\* C20: when the context builder throws or rejects, the endpoint handler is
\* never invoked, the response is 500 with an empty body, and the same error
\* is raised out of the returned handler after the 500 has been emitted.
Cl_C20 ==
  \A r \in ReqIds :
    Happened(r, {"context_throw"}) =>
      /\ ~Happened(r, {"handler_call", "send", "redirect", "setHeader"})
      /\ ~IsDefined(result[r])
      /\ pc[r] \in {"catch", "rethrow", "unwind", "done"}
      /\ pc[r] \in {"rethrow", "unwind", "done"} => Answered(r, 500) /\ EmptyBody(r)
      /\ IsDefined(raised[r]) => Answered(r, 500)
      /\ pc[r] = "done" =>
           /\ raised[r] = trace[r][FirstAt(r, {"context_throw"})].arg
           /\ raised[r] = Some(ContextError)
           /\ FirstAt(r, {"end"}) > 0
           /\ FirstAt(r, {"end"}) < FirstAt(r, {"throw"})

Wit_C20 ==
  /\ pc[1] = "done"
  /\ Happened(1, {"context_throw"})
  /\ raised[1] = Some(ContextError)
  /\ Answered(1, 500)

\* What the context builder of request r returned to it (nothing if it was
\* not called or did not return).
BuilderReturnOf(r) ==
  IF Happened(r, {"context_return"})
    THEN trace[r][FirstAt(r, {"context_return"})].arg
    ELSE <<>>

\* The response request r produces when it runs alone, from its own request,
\* what its own context builder and handler settled with, and the method
\* index built at construction.
AloneResponse(r) ==
  LET def == GetProperty(reduceEndpoints(EmptyIndex, endpoints).map, MethodKey(req[r]))
  IN IF ~IsDefined(def) THEN notFound(NewResponse)
     ELSE IF validateEndpointSchemaForRequest(ValueOf(def), req[r]).failed
       THEN badRequest(NewResponse,
                       validateEndpointSchemaForRequest(ValueOf(def), req[r]).body)
     ELSE IF \/ Happened(r, {"context_throw", "handler_throw"})
             \/ ~IsDefined(ValueOf(def).handler)
       THEN serverError(NewResponse)
     ELSE IF ~responseParse(ValueOf(def), ValueOf(result[r])).ok
       THEN serverError(NewResponse)
     ELSE emit(setResponseHeaders(NewResponse, ValueOf(result[r]).headers),
               ValueOf(result[r]))

\* C21: however the in-flight requests interleave at the context-builder and
\* handler suspension points, each request's emitted outcome and the context
\* its handler receives are those it produces when run alone, and no request
\* modifies the method index built at construction.
Cl_C21 ==
  /\ ctor = "returned" =>
       methodEndpoints = reduceEndpoints(EmptyIndex, endpoints).map
  /\ \A r \in ReqIds :
       /\ HandlerCalled(r) =>
            HandlerCtx(r) = handlerContext(r, req[r], BuilderReturnOf(r))
       /\ pc[r] = "done" =>
            /\ res[r].statusCode = AloneResponse(r).statusCode
            /\ res[r].body = AloneResponse(r).body
            /\ res[r].location = AloneResponse(r).location
            /\ res[r].headers = AloneResponse(r).headers
            /\ Len(OutcomeCalls(r)) = 1

Wit_C21 ==
  /\ pc[1] = "await_handler"
  /\ pc[2] = "await_handler"
  /\ FirstAt(1, {"context_return"}) > 0
  /\ FirstAt(2, {"context_return"}) > 0
  /\ BuilderReturnOf(1) = [x |-> BuilderValue("1")]
  /\ BuilderReturnOf(2) = [req |-> BuilderValue("fake")]
  /\ HandlerCtx(2).req = BuilderValue("fake")
  /\ HandlerCtx(1).req = ReqHandle(1)

\* Request r has been handed to the returned handler.
Invoked(r) == pc[r] # "idle"

\* Request r waits for its context builder or its handler to settle.
Awaiting(r) == pc[r] \in {"await_context", "await_handler"}

\* A response has been emitted for request r.
Responded(r) == res[r].finished /\ Len(OutcomeCalls(r)) > 0

\* C22: a request whose context builder and handler each eventually settle
\* eventually has a response emitted; a request whose context builder or
\* handler never settles never has a response emitted.
Cl_C22 ==
  /\ [](Invoked(1) => (<>Responded(1) \/ <>[]Awaiting(1)))
  /\ (<>[]Awaiting(1)) => [](~Responded(1))

Wit_C22 ==
  /\ pc[1] = "done"
  /\ Happened(1, {"context_return"})
  /\ IsDefined(result[1])
  /\ Responded(1)
  /\ Emitted(1)

\* The calls of r's trace made by the core pipeline, the context builder or
\* the endpoint handler.
CoreEvents(r) ==
  SelectSeq(trace[r], LAMBDA e : e.by \in {"core", "context", "handler"})

\* The decorator in position i of the list answers the request itself.
Answers(i) == decorators[i].kind = "short"

\* C23: when a decorator handles a request without delegating to the
\* handler it wraps, no stage of the core pipeline runs for the request (no
\* lookup, validation, context builder or handler), the core emits no
\* response, and the decorators listed before it do not run either.
Cl_C23 ==
  \A r \in ReqIds : \A i \in 1..Len(decorators) :
    (Answers(i) /\ Reached(i) /\ Invoked(r)) =>
      /\ CoreEvents(r) = <<>>
      /\ ~Happened(r, {"lookup", "safeParse", "context_call", "handler_call"})
      /\ pc[r] \in {"decorator", "unwind", "done"}
      /\ ~IsDefined(endpointDef[r])
      /\ Len(PreEvents(r)) <= Len(decorators) + 1 - i
      /\ Len(res[r].calls) =
           Len(SelectSeq(trace[r], LAMBDA e : /\ e.by = decorators[i].name
                                              /\ e.ev # "decorator_pre"))
      /\ pc[r] = "done" =>
           /\ Len(PreEvents(r)) = Len(decorators) + 1 - i
           /\ res[r] = decoratorAnswer(NewResponse)
           /\ ~IsDefined(raised[r])

Wit_C23 ==
  /\ pc[1] = "done"
  /\ decorators = <<Decorator("A", "wrap"), Decorator("S", "short")>>
  /\ Len(PreEvents(1)) = 1
  /\ PreEvents(1)[1].by = "S"
  /\ Answered(1, 500)
  /\ CoreEvents(1) = <<>>

\* The handler of request r resolved with a result that has no body.
NoBodyResult(r) ==
  /\ IsDefined(result[r])
  /\ ~IsDefined(ValueOf(result[r]).body)

\* C24: the response schema is evaluated only when the handler returned a
\* body and the endpoint declares a responseSchema; when the handler returns
\* no body it is never evaluated and the response is emitted normally: the
\* redirect, or an empty-bodied response at the given or default status.
Cl_C24 ==
  \A r \in ReqIds :
    /\ ResponseParsed(r) =>
         /\ IsDefined(result[r])
         /\ IsDefined(ValueOf(result[r]).body)
         /\ IsDefined(ValueOf(endpointDef[r]).responseSchema)
    /\ NoBodyResult(r) =>
         /\ ~ResponseParsed(r)
         /\ ~IsDefined(exc[r])
         /\ pc[r] \in {"validate_response", "headers", "emit", "unwind", "done"}
         /\ Finished(r) =>
              /\ Emitted(r)
              /\ IF IsDefined(ValueOf(result[r]).redirect)
                   THEN /\ res[r].location = ValueOf(result[r]).redirect
                        /\ res[r].statusCode = OrDefault(ValueOf(result[r]).status, 307)
                   ELSE /\ EmptyBody(r)
                        /\ res[r].statusCode = OrDefault(ValueOf(result[r]).status, 200)

Wit_C24 ==
  /\ pc[1] = "done"
  /\ NoBodyResult(1)
  /\ IsDefined(ValueOf(endpointDef[1]).responseSchema)
  /\ ~IsDefined(ValueOf(result[1]).redirect)
  /\ Answered(1, 201)
  /\ EmptyBody(1)

\* C25: with an empty or absent decorators option asHandler returns the core
\* pipeline itself: every request yields exactly the calls and the outcome
\* of the undecorated pipeline, and what the pipeline raises is what the
\* caller gets.
Cl_C25 ==
  decorators = <<>> =>
    /\ ctor = "returned" => handlerChain = outerHandler
    /\ \A r \in ReqIds :
         /\ trace[r] = CoreEvents(r)
         /\ depth[r] = 0
         /\ pc[r] # "decorator"
         /\ Len(trace[r]) > 0 => trace[r][1].ev = "lookup"
         /\ pc[r] = "done" =>
              /\ raised[r] = exc[r]
              /\ res[r].statusCode = AloneResponse(r).statusCode
              /\ res[r].body = AloneResponse(r).body
              /\ res[r].location = AloneResponse(r).location
              /\ res[r].headers = AloneResponse(r).headers
              /\ res[r].calls = AloneResponse(r).calls

Wit_C25 ==
  /\ decorators = <<>>
  /\ ctor = "returned"
  /\ handlerChain = <<>>
  /\ pc[1] = "done"
  /\ Emitted(1)
  /\ trace[1][1].ev = "lookup"

\* The decorator in position i of the list raises in its own logic.
Raises(i) == decorators[i].kind = "throw"

\* Call j of r's trace follows the core's emission of the 500.
After500(r, j) ==
  \E i \in 1..(j - 1) :
    /\ trace[r][i].ev = "end"
    /\ trace[r][i].by = "core"
    /\ \E k \in 1..(i - 1) :
         /\ trace[r][k].ev = "status"
         /\ trace[r][k].by = "core"
         /\ trace[r][k].arg = <<500>>

\* C26: an error raised by a decorator's own logic is not caught by the
\* core's error boundary (the core emits no 500 for it and it reaches the
\* caller), whereas an error raised inside the core pipeline reaches each
\* enclosing decorator only after the core has emitted the 500.
Cl_C26 ==
  \A r \in ReqIds :
    /\ \A i \in 1..Len(decorators) :
         (Raises(i) /\ Reached(i) /\ Finished(r)) =>
           /\ exc[r] = Some(DecoratorError(decorators[i].name))
           /\ CoreEvents(r) = <<>>
           /\ res[r] = NewResponse
           /\ pc[r] = "done" => raised[r] = exc[r]
    /\ \A j \in 1..Len(trace[r]) :
         (trace[r][j].ev = "decorator_rejected" /\ Happened(r, {"lookup"})) =>
           /\ After500(r, j)
           /\ \E i \in 1..(j - 1) : trace[r][i].ev = "throw" /\ trace[r][i].by = "core"
    /\ (Happened(r, {"lookup"}) /\ Finished(r) /\ IsDefined(exc[r])) =>
         Answered(r, 500)

Wit_C26 ==
  /\ pc[1] = "done"
  /\ decorators = <<Decorator("T", "throw"), Decorator("A", "wrap")>>
  /\ raised[1] = Some(DecoratorError("T"))
  /\ Happened(1, {"decorator_rejected"})
  /\ res[1] = NewResponse

\* Request r ends without reaching emission: no endpoint for its method,
\* a failed validation, a throwing context builder, a throwing handler or a
\* handler body the responseSchema rejects.
EndsBeforeEmission(r) ==
  \/ ~IsDefined(endpointDef[r]) /\ Answered(r, 404)
  \/ ValidationFails(r) /\ Answered(r, 400)
  \/ /\ Answered(r, 500)
     /\ \/ exc[r] \in {Some(ContextError), Some(HandlerError)}
        \/ ResultRejected(r)

HeadersTouched(r) ==
  \/ Happened(r, {"setHeader"})
  \/ res[r].headers # <<>>

\* C27: the headers of the handler result are set only on the path that
\* reaches emission: a request that ends in the 404, in the 400, or in the 500
\* of a throwing context builder, a throwing handler or a response-schema
\* failure never has a header set; a header is set only once the handler has
\* returned a result that the response check let through.
Cl_C27 ==
  \A r \in ReqIds :
    /\ (Finished(r) /\ EndsBeforeEmission(r)) => ~HeadersTouched(r)
    /\ HeadersTouched(r) =>
         /\ IsDefined(result[r])
         /\ IsDefined(ValueOf(result[r]).headers)
         /\ ~ResultRejected(r)
         /\ pc[r] \in {"emit", "catch", "rethrow", "unwind", "done"}

Wit_C27 ==
  /\ pc[1] = "done"
  /\ ResultRejected(1)
  /\ ValueOf(result[1]).headers = Some(ResultHeaders)
  /\ Answered(1, 500)
  /\ res[1].headers = <<>>

\* Endpoint i of the list is the one registered for the method of request r.
ResolvesTo(r, i) ==
  /\ IsDefined(req[r].method)
  /\ i \in 1..Len(endpoints)
  /\ SameMethod(endpoints[i].method, ValueOf(req[r].method))

\* Call j of r's trace evaluates something endpoint i declares: one of its
\* schemas, its context builder or its handler.
EvaluatesOf(r, j, i) ==
  LET e == trace[r][j]
  IN \/ /\ e.ev = "safeParse"
        /\ e.ep = i
        /\ \/ e.arg = <<"query">> /\ IsDefined(endpoints[i].querySchema)
           \/ e.arg = <<"body">> /\ IsDefined(endpoints[i].bodySchema)
           \/ e.arg = <<"response">> /\ IsDefined(endpoints[i].responseSchema)
     \/ /\ e.ev = "context_call"
        /\ endpoints[i].context = Some(e.ep)
     \/ /\ e.ev = "handler_call"
        /\ endpoints[i].handler = Some(e.ep)

Evaluations == {"safeParse", "context_call", "handler_call"}

\* C28: every schema, context builder and handler evaluated for a request
\* is the one declared by the endpoint registered for the request's method;
\* nothing of the endpoints registered for the other methods of the same
\* asHandler call is invoked for it.
Cl_C28 ==
  \A r \in ReqIds :
    \A j \in 1..Len(trace[r]) :
      trace[r][j].ev \in Evaluations =>
        /\ \E i \in 1..Len(endpoints) : ResolvesTo(r, i) /\ EvaluatesOf(r, j, i)
        /\ \A i \in 1..Len(endpoints) : ~ResolvesTo(r, i) => ~EvaluatesOf(r, j, i)

Wit_C28 ==
  /\ pc[1] = "done"
  /\ Len(endpoints) = 2
  /\ ResolvesTo(1, 2)
  /\ IsDefined(endpoints[1].querySchema)
  /\ IsDefined(endpoints[1].context)
  /\ ~IsDefined(endpoints[2].querySchema)
  /\ ~IsDefined(endpoints[2].context)
  /\ Rejects(endpoints[1].querySchema, req[1].query)
  /\ Emitted(1)
  /\ \E j \in 1..Len(trace[1]) : trace[1][j].ev = "handler_call" /\ trace[1][j].ep = 2

\* No declared endpoint has a context builder or a responseSchema.
NoBuilderNoResponseSchema ==
  \A i \in 1..Len(declared) :
    ~IsDefined(declared[i].context) /\ ~IsDefined(declared[i].responseSchema)

\* Two calls are the same event: the same call on the same endpoint with the
\* same arguments, whichever handler made it and whichever request and
\* response objects it was made for.
SameEvent(a, b) ==
  /\ a.ev = b.ev
  /\ a.ep = b.ep
  /\ IF a.ev = "handler_call"
       THEN /\ DOMAIN a.arg = DOMAIN b.arg
            /\ \A k \in DOMAIN a.arg :
                 /\ a.arg[k].kind = b.arg[k].kind
                 /\ a.arg[k].obj = b.arg[k].obj
       ELSE a.arg = b.arg

SameResponse(a, b) ==
  /\ a.finished = b.finished
  /\ a.statusCode = b.statusCode
  /\ a.headers = b.headers
  /\ a.location = b.location
  /\ a.body = b.body
  /\ Len(a.calls) = Len(b.calls)

\* C29: for an endpoint list without context builder and responseSchema,
\* route(endpoints) and asHandler(endpoints) throw or return alike, and for
\* the same request their handlers make the same calls in the same order
\* (validation, handler, headers, emission), leave the same response and
\* raise the same error.
Cl_C29 ==
  NoBuilderNoResponseSchema =>
    /\ (ctor # "pending" /\ routed.ctor # "pending") =>
         /\ routed.ctor = ctor
         /\ routed.error = ctorError
         /\ routed.handler = handlerChain
    /\ \A i \in 1..Len(trace[RouteRequest]) :
         /\ i <= Len(trace[AsHandlerRequest])
         /\ SameEvent(trace[AsHandlerRequest][i], trace[RouteRequest][i])
    /\ (Finished(AsHandlerRequest) /\ pc[RouteRequest] = "await_handler") =>
         HandlerCalled(AsHandlerRequest)
    /\ (pc[AsHandlerRequest] = "done" /\ pc[RouteRequest] = "done") =>
         /\ Len(trace[RouteRequest]) = Len(trace[AsHandlerRequest])
         /\ SameResponse(res[AsHandlerRequest], res[RouteRequest])
         /\ raised[RouteRequest] = raised[AsHandlerRequest]

Wit_C29 ==
  /\ NoBuilderNoResponseSchema
  /\ Len(declared) = 2
  /\ pc[AsHandlerRequest] = "done"
  /\ pc[RouteRequest] = "done"
  /\ Happened(RouteRequest, {"safeParse"})
  /\ Happened(RouteRequest, {"setHeader"})
  /\ Happened(RouteRequest, {"send"})
  /\ Len(trace[RouteRequest]) = Len(trace[AsHandlerRequest])
  /\ res[RouteRequest].statusCode = 201

====
